---------------------------- MODULE Spec2Model ----------------------------
(***************************************************************************)
(* Catalog transformation pipeline of the Warhammer list builder           *)
(* (scripts/parse-bsdata.js) and the schema its batch is applied to.       *)
(*                                                                         *)
(* The module holds several state machines over one set of variables, one  *)
(* per component; a component that a specification does not exercise stays *)
(* in its idle state.                                                      *)
(*   SpecRole     extractRole over an entry's category links               *)
(*   SpecWeapons  extractWeapons over an entry graph, and the weapon       *)
(*                de-duplication of findUnits                              *)
(*   SpecPipeline parseCatalog.findUnits over one document, the merge of   *)
(*                the main loop, generateSQL with the clean-up header, and *)
(*                the batch applied to the schema                          *)
(*   SpecWargear  extractWargearOptions over a unit entry's groups         *)
(*   SpecMain     the main loop over CATALOGS: parseCatalog of each file,   *)
(*                the merge, generateSQL per faction, the migration written,*)
(*                and a second run over the same files                      *)
(*   SpecEnhancements  the attribution of an enhancement entry to a         *)
(*                detachment in extractDetachments                          *)
(*   SpecStats    extractStats over an entry tree and the stats test of     *)
(*                findUnits                                                 *)
(*   SpecPoints   getUnitPoints of the list editor                          *)
(*   SpecAbilities  extractAbilities over an entry's profiles and infoLinks *)
(*   SpecTiers    extractPointsTiers over an entry's costs, constraints and *)
(*                modifiers                                                 *)
(*   SpecIndex    buildEntryIndex over a document's entries                 *)
(*   SpecTotals   totalPoints of the list editor and calculate_list_points  *)
(*                of the server over a stored list                          *)
(*   SpecAddUnit  addUnit calls of the list editor, their inserts and the   *)
(*                refetch of the page's state                               *)
(*   SpecAssign   assignEnhancement calls of the list editor                *)
(*   SpecImport   handleImport of the list editor                           *)
(*   SpecExport   generateExportText over the page's list and              *)
(*                parseImportText over the text                             *)
(*   SpecUnitStats  the stat fields of a unit findUnits pushes             *)
(***************************************************************************)
EXTENDS Integers, Sequences, FiniteSets, TLC

VARIABLES
    rPc,        \* role extraction: "ready" | "done" | "idle"
    rNode,      \* the entry's categoryLinks: a sequence of category labels
    rRole,      \* the value extractRole returned
    wPc,        \* weapon extraction: "ready" | "run" | "returned" | "done" | "idle"
    wProfile,   \* node -> the node's profiles (a sequence of profile records)
    wLink,      \* node -> targetId of the node's entryLink (0: no entryLink)
    wStack,     \* the call stack of extractWeapons: frames [node, depth, todo]
    wOut,       \* the weapons collected so far, in the order they are pushed
    wMaxDepth,  \* greatest depth argument of any extractWeapons call made
    wMaxVisit,  \* greatest depth at which a call got past the depth guard
    wVisited,   \* the nodes whose profiles a call has read
    wWeapons,   \* the emitted unit's weapons ([...weaponMap.values()])
    pPc,        \* pipeline: "entries" | "links" | "shared" | "parsed" | "merged"
                \*   | "apply" | "applied" | "failed" | "idle"
    units,      \* parseCatalog: the units found in the document so far
    seenUnitNames,  \* parseCatalog: the names of those units
    mergedUnits,    \* main loop: the faction's merged units
    batch,      \* the statements of the written migration, in order
    stmt,       \* index of the next statement of the batch to execute
    db,         \* the database: table name -> set of rows
    dbBefore,   \* the database as it was before the run
    gPc,        \* wargear extraction: the loop it is in, "done" or "idle"
    options,    \* the options pushed so far
    idx,        \* index of the next direct entry of the current Wargear group
    sgName,     \* group name of the current sub-group
    sgIdx,      \* the sub-group's option counter
    mPc,        \* main loop: "start" | "files" | "write" | "written" | "crashed"
                \*   | "idle"
    run,        \* which run of the script this is (1 or 2; 0 when idle)
    docs,       \* file name -> what the file holds
    fIdx,       \* index in CATALOGS of the faction being processed
    dIdx,       \* index of the next file of that faction
    mainMergedUnits,    \* main loop: mergedUnits of the faction
    mergedDetachments,  \* main loop: mergedDetachments of the faction
    mainSeenUnitNames,  \* main loop: seenUnitNames of the faction
    allSQL,     \* the statements generated per faction so far
    totalUnits,
    totalFactions,
    outFile,    \* the seed migration in OUT_DIR
    firstFile,  \* the seed migration the first run left
    ePc,        \* enhancement attribution: "ready" | "done" | "idle"
    eDetName,   \* '@_name' of the detachment entry
    eGroupName, \* '@_name' of the enhancement group
    eComment,   \* comment of the group's enhancement entry
    eOut,       \* the detachments extractDetachments returns
    sPc,        \* stats: "ready" | "extracted" | "done" | "idle"
    sProfiles,  \* entry tree node -> the typeName of each of its profiles
    sStats,     \* what extractStats returned (<<>>: null)
    sUnits,     \* the names findUnits pushed for the entry
    tPc,        \* points: "ready" | "done" | "idle"
    tTiers,     \* unit.unit_points_tiers, in the order received
    tModelCount,    \* the modelCount argument
    tPts,       \* what getUnitPoints returned
    aPc,        \* abilities: "ready" | "done" | "idle"
    aProfiles,  \* the entry's profiles
    aInfoLinks, \* the entry's infoLinks
    aOut,       \* the abilities extractAbilities returned
    ptPc,       \* points tiers: "ready" | "done" | "idle"
    ptNode,     \* the entry: pts cost, min constraints, modifiers
    ptTiers,    \* the tiers extractPointsTiers returned
    iPc,        \* entry index: "ready" | "done" | "idle"
    iIdent,     \* document node -> its '@_id' and whether it has an '@_name'
    iIndex,     \* the map buildEntryIndex returned
    lPc,        \* list editor: the step the page is at, or "idle"
    dbUnits,    \* the list's rows of army_list_units
    dbEnhancements,     \* the list's rows of army_list_enhancements
    nextId,     \* the id the next inserted row gets
    listUnits,  \* the page's state listUnits
    listEnhancements,   \* the page's state listEnhancements
    serverValidation,   \* the page's state serverValidation
    calls,      \* the calls of async handlers that have not finished
    importResult,       \* what handleImport returned (<<>>: nothing yet)
    xPc,        \* export modal: "ready" | "exported" | "parsed" | "idle"
    exportText, \* the text generateExportText returned
    parsedUnits,\* what parseImportText returned for that text
    uPc,        \* unit record: "ready" | "pushed" | "idle"
    uStats,     \* the characteristics extractStats returned, by name
    uUnit       \* the stat fields of the pushed unit, <<>> before the push

roleVars == <<rPc, rNode, rRole>>
weaponVars == <<wPc, wProfile, wLink, wStack, wOut, wMaxDepth, wMaxVisit,
                wVisited, wWeapons>>

pipelineVars == <<pPc, units, seenUnitNames, mergedUnits, batch, stmt, db,
                  dbBefore>>

wargearVars == <<gPc, options, idx, sgName, sgIdx>>

mainVars == <<mPc, run, docs, fIdx, dIdx, mainMergedUnits, mergedDetachments,
              mainSeenUnitNames, allSQL, totalUnits, totalFactions, outFile,
              firstFile>>

enhancementVars == <<ePc, eDetName, eGroupName, eComment, eOut>>

statsVars == <<sPc, sProfiles, sStats, sUnits>>

pointsVars == <<tPc, tTiers, tModelCount, tPts>>

abilityVars == <<aPc, aProfiles, aInfoLinks, aOut>>

tierVars == <<ptPc, ptNode, ptTiers>>

indexVars == <<iPc, iIdent, iIndex>>

editorVars == <<lPc, dbUnits, dbEnhancements, nextId, listUnits, listEnhancements,
               serverValidation, calls, importResult>>

exportVars == <<xPc, exportText, parsedUnits>>

ustatsVars == <<uPc, uStats, uUnit>>

vars == <<roleVars, weaponVars, pipelineVars, wargearVars, mainVars,
          enhancementVars, statsVars, pointsVars, abilityVars, tierVars,
          indexVars, editorVars, exportVars, ustatsVars>>

\* What each component leaves alone.
notRoleVars == <<weaponVars, pipelineVars, wargearVars, mainVars,
    enhancementVars, statsVars, pointsVars, abilityVars, tierVars,
    indexVars, editorVars, exportVars, ustatsVars>>
notWeaponVars == <<roleVars, pipelineVars, wargearVars, mainVars,
    enhancementVars, statsVars, pointsVars, abilityVars, tierVars,
    indexVars, editorVars, exportVars, ustatsVars>>
notPipelineVars == <<roleVars, weaponVars, wargearVars, mainVars,
    enhancementVars, statsVars, pointsVars, abilityVars, tierVars,
    indexVars, editorVars, exportVars, ustatsVars>>
notWargearVars == <<roleVars, weaponVars, pipelineVars, mainVars,
    enhancementVars, statsVars, pointsVars, abilityVars, tierVars,
    indexVars, editorVars, exportVars, ustatsVars>>
notMainVars == <<roleVars, weaponVars, pipelineVars, wargearVars,
    enhancementVars, statsVars, pointsVars, abilityVars, tierVars,
    indexVars, editorVars, exportVars, ustatsVars>>
notEnhancementVars == <<roleVars, weaponVars, pipelineVars, wargearVars,
    mainVars, statsVars, pointsVars, abilityVars, tierVars, indexVars,
    editorVars, exportVars, ustatsVars>>
notStatsVars == <<roleVars, weaponVars, pipelineVars, wargearVars,
    mainVars, enhancementVars, pointsVars, abilityVars, tierVars,
    indexVars, editorVars, exportVars, ustatsVars>>
notPointsVars == <<roleVars, weaponVars, pipelineVars, wargearVars,
    mainVars, enhancementVars, statsVars, abilityVars, tierVars, indexVars,
    editorVars, exportVars, ustatsVars>>
notAbilityVars == <<roleVars, weaponVars, pipelineVars, wargearVars,
    mainVars, enhancementVars, statsVars, pointsVars, tierVars, indexVars,
    editorVars, exportVars, ustatsVars>>
notTierVars == <<roleVars, weaponVars, pipelineVars, wargearVars, mainVars,
    enhancementVars, statsVars, pointsVars, abilityVars, indexVars,
    editorVars, exportVars, ustatsVars>>
notIndexVars == <<roleVars, weaponVars, pipelineVars, wargearVars,
    mainVars, enhancementVars, statsVars, pointsVars, abilityVars,
    tierVars, editorVars, exportVars, ustatsVars>>
notEditorVars == <<roleVars, weaponVars, pipelineVars, wargearVars,
    mainVars, enhancementVars, statsVars, pointsVars, abilityVars,
    tierVars, indexVars, exportVars, ustatsVars>>
notExportVars == <<roleVars, weaponVars, pipelineVars, wargearVars,
    mainVars, enhancementVars, statsVars, pointsVars, abilityVars,
    tierVars, indexVars, editorVars, ustatsVars>>
notUstatsVars == <<roleVars, weaponVars, pipelineVars, wargearVars,
    mainVars, enhancementVars, statsVars, pointsVars, abilityVars,
    tierVars, indexVars, editorVars, exportVars>>

(***************************************************************************)
(* Helpers                                                                 *)
(***************************************************************************)
SeqsUpTo(S, n) == UNION {[1..k -> S] : k \in 0..n}

Range(s) == {s[i] : i \in DOMAIN s}

\* The least element of a non-empty set of integers.
Min(S) == CHOOSE x \in S : \A y \in S : x <= y

(***************************************************************************)
(* Role classification                                                     *)
(***************************************************************************)
\* Longest categoryLinks list of an entry.
MaxCategoryLinks == 2

ROLE_CATEGORIES ==
    [l \in {"Epic Hero", "Character", "Battleline", "Infantry", "Mounted",
            "Beast", "Vehicle", "Monster", "Fortification",
            "Dedicated Transport", "Allied Units"} |->
        CASE l = "Epic Hero" -> "epic_hero"
          [] l = "Character" -> "character"
          [] l = "Battleline" -> "battleline"
          [] l = "Infantry" -> "infantry"
          [] l = "Mounted" -> "mounted"
          [] l = "Beast" -> "beast"
          [] l = "Vehicle" -> "vehicle"
          [] l = "Monster" -> "monster"
          [] l = "Fortification" -> "fortification"
          [] l = "Dedicated Transport" -> "dedicated_transport"
          [] l = "Allied Units" -> "allied"]

ROLE_PRIORITY ==
    <<"epic_hero", "character", "battleline", "dedicated_transport",
      "fortification", "monster", "vehicle", "beast", "mounted", "infantry">>

\* Labels a categoryLink can carry: the mapped ones, one that is not mapped,
\* and "" for a link without a name attribute.
CategoryLabels == DOMAIN ROLE_CATEGORIES \cup {"Grenades", ""}

\* The roles collected by the loop over the category links.
collectRoles(links) ==
    {ROLE_CATEGORIES[links[i]] :
        i \in {j \in DOMAIN links :
                 links[j] # "" /\ links[j] \in DOMAIN ROLE_CATEGORIES}}

\* A plausible slip: the role of the first mapped link, in link order.
extractRoleLinkOrder(links) ==
    LET mapped == {j \in DOMAIN links : links[j] \in DOMAIN ROLE_CATEGORIES}
    IN  IF mapped = {} THEN "infantry"
        ELSE ROLE_CATEGORIES[links[Min(mapped)]]

extractRole(links) ==
    LET roles == collectRoles(links)
        hits == {i \in DOMAIN ROLE_PRIORITY : ROLE_PRIORITY[i] \in roles}
    IN  IF hits # {} THEN ROLE_PRIORITY[Min(hits)] ELSE "infantry"

RoleIdle ==
    /\ rPc = "idle"
    /\ rNode = <<>>
    /\ rRole = ""

RoleInput ==
    /\ rPc = "ready"
    /\ rNode \in SeqsUpTo(CategoryLabels, MaxCategoryLinks)
    /\ rRole = ""

\* findUnits calls extractRole(entry) on an entry it emits.
ExtractRole ==
    /\ rPc = "ready"
    /\ rRole' = extractRole(rNode)
    /\ rPc' = "done"
    /\ UNCHANGED <<rNode, notRoleVars>>

RoleNext == ExtractRole

\* The mapped labels the entry carries, and their roles.
MappedLabels == {l \in Range(rNode) : l \in DOMAIN ROLE_CATEGORIES}
CarriedRoles == {ROLE_CATEGORIES[l] : l \in MappedLabels}

PriorityIndex(r) == Min({i \in DOMAIN ROLE_PRIORITY : ROLE_PRIORITY[i] = r})

\* C7: the fallback 'infantry' is returned only when no label of the entry is
\* mapped; with at least one mapped label the returned role is the role of a
\* label the entry carries.
RoleIsOfACarriedCategory ==
    rPc = "done" =>
        /\ (MappedLabels # {} => rRole \in CarriedRoles)
        /\ (MappedLabels = {} => rRole = "infantry")

\* C8: with several mapped categories the returned role is the carried role
\* that comes first in ROLE_PRIORITY, whatever the order of the links;
\* Battleline with Vehicle gives battleline.
RolePriorityDecides ==
    (rPc = "done" /\ Cardinality(MappedLabels) >= 2) =>
        /\ rRole \in CarriedRoles
        /\ rRole \in Range(ROLE_PRIORITY)
        /\ \A r \in CarriedRoles \cap Range(ROLE_PRIORITY) :
              PriorityIndex(rRole) <= PriorityIndex(r)
        /\ (MappedLabels = {"Battleline", "Vehicle"} => rRole = "battleline")

\* C8 witness: Vehicle listed before Battleline, and battleline returned.
RolePriorityWitness ==
    /\ rPc = "done"
    /\ rNode = <<"Vehicle", "Battleline">>
    /\ rRole = "battleline"

(***************************************************************************)
(* Weapon extraction                                                       *)
(***************************************************************************)
\* Number of entries in the shared pool of the catalogue.
NShared == 1

\* The depth past which extractWeapons returns without reading its node.
MaxDepth == 6

\* The entry graph: node 1 is the unit entry, node 2 its child
\* selectionEntry, node 3 its child selectionEntryGroup, and the nodes from 4
\* on are shared selection entries.  The unit entry and every shared entry
\* carry at most one entryLink.  Every node has an id and a name, so the
\* entry index maps each node's id to the node.
UnitNode == 1
SharedNodes == 4..(3 + NShared)
Nodes == 1..(3 + NShared)
LinkingNodes == {UnitNode} \cup SharedNodes

\* An entryLink object itself is passed to extractWeapons as well; it holds
\* no profiles, entries, groups or links of its own.
LinkObject == 0

\* targetId values: 0 stands for "the node has no entryLink"; the id after
\* the last node is in no entry of the catalogue.
DanglingId == 4 + NShared
TargetIds == {0} \cup LinkingNodes \cup {DanglingId}

entryIndex == [id \in Nodes |-> id]

\* profile['@_typeName'] and profile['@_name'] of the weapon profiles a node
\* can hold.  The S characteristic of a node's profile is the node's number,
\* so that the records of two nodes differ even when name and type agree.
ProfileKinds ==
    {<<>>,
     <<[name |-> "bolter", typeName |-> "Ranged Weapons"]>>,
     <<[name |-> "bolter", typeName |-> "Melee Weapons"]>>}

\* node.profiles.profile: the unit entry holds an ability profile before its
\* weapon profiles.
profiles(n) ==
    (IF n = UnitNode THEN <<[name |-> "aura", typeName |-> "Abilities"]>>
     ELSE <<>>) \o wProfile[n]

selectionEntries(n) == IF n = UnitNode THEN <<2>> ELSE <<>>
selectionEntryGroups(n) == IF n = UnitNode THEN <<3>> ELSE <<>>
entryLinks(n) ==
    IF n \in LinkingNodes /\ wLink[n] # 0 THEN <<wLink[n]>> ELSE <<>>

\* parseInt(v) || d for a characteristic holding the integer v.
parseIntOr(v, d) == IF v = 0 THEN d ELSE v

RECURSIVE FlatMap(_, _)
FlatMap(F(_), s) == IF s = <<>> THEN <<>> ELSE F(Head(s)) \o FlatMap(F, Tail(s))

\* The Weapon records of the profiles directly on node n.
directWeapons(n) ==
    IF n = LinkObject THEN <<>>
    ELSE LET one(p) ==
               IF p.typeName \in {"Ranged Weapons", "Melee Weapons"}
               THEN <<[name |-> p.name,
                       type |-> IF p.typeName = "Ranged Weapons"
                                THEN "ranged" ELSE "melee",
                       strength |-> parseIntOr(n, 4)]>>
               ELSE <<>>
         IN  FlatMap(one, profiles(n))

\* The nodes extractWeapons calls itself on, in order, for node n.
recursiveCalls(n) ==
    IF n = LinkObject THEN <<>>
    ELSE LET viaLink(t) ==
               (IF t \in DOMAIN entryIndex THEN <<entryIndex[t]>> ELSE <<>>)
                  \o <<LinkObject>>
         IN  selectionEntries(n) \o selectionEntryGroups(n)
                \o FlatMap(viaLink, entryLinks(n))

\* A plausible slip: the guard compares with the wrong ceiling.
depthExceededLate(depth) == depth > MaxDepth + 2

\* if (depth > 6) return [];
depthExceeded(depth) == depth > MaxDepth

\* A plausible slip: a later weapon overwrites the one kept for its key.
dedupLastWins(ws) ==
    LET keep == {i \in DOMAIN ws :
                   \A j \in DOMAIN ws :
                      (j > i) => <<ws[j].name, ws[j].type>> # <<ws[i].name, ws[i].type>>}
        first(k) == Min({i \in DOMAIN ws :
                           <<ws[i].name, ws[i].type>> = <<ws[k].name, ws[k].type>>})
        order == {first(k) : k \in keep}
        last(f) == CHOOSE k \in keep :
                      <<ws[k].name, ws[k].type>> = <<ws[f].name, ws[f].type>>
        RECURSIVE build(_)
        build(i) == IF i > Len(ws) THEN <<>>
                    ELSE (IF i \in order THEN <<ws[last(i)]>> ELSE <<>>) \o build(i + 1)
    IN  build(1)

\* The weaponMap of findUnits: a weapon is stored under `name|type` only
\* when the key is not yet in the map; the values keep insertion order.
dedupWeapons(ws) ==
    LET RECURSIVE build(_)
        build(i) ==
            IF i > Len(ws) THEN <<>>
            ELSE (IF \E j \in 1..(i - 1) :
                       <<ws[j].name, ws[j].type>> = <<ws[i].name, ws[i].type>>
                  THEN <<>> ELSE <<ws[i]>>) \o build(i + 1)
    IN  build(1)

Max2(a, b) == IF a >= b THEN a ELSE b

\* A call extractWeapons(n, entryIndex, d): the frame it runs in, with the
\* recursive calls it has still to make.
Frame(n, d) ==
    [node |-> n, depth |-> d,
     todo |-> IF depthExceeded(d) THEN <<>> ELSE recursiveCalls(n)]

WeaponIdle ==
    /\ wPc = "idle"
    /\ wProfile = <<>>
    /\ wLink = <<>>
    /\ wStack = <<>>
    /\ wOut = <<>>
    /\ wMaxDepth = 0
    /\ wMaxVisit = 0
    /\ wVisited = {}
    /\ wWeapons = <<>>

WeaponInput ==
    /\ wPc = "ready"
    /\ wProfile \in [Nodes -> ProfileKinds]
    /\ wLink \in [LinkingNodes -> TargetIds]
    /\ wStack = <<>>
    /\ wOut = <<>>
    /\ wMaxDepth = 0
    /\ wMaxVisit = 0
    /\ wVisited = {}
    /\ wWeapons = <<>>

\* The effect of entering a call on node n at depth d.
Enter(n, d) ==
    /\ wMaxDepth' = Max2(wMaxDepth, d)
    /\ IF depthExceeded(d)
       THEN UNCHANGED <<wOut, wMaxVisit, wVisited>>
       ELSE /\ wOut' = wOut \o directWeapons(n)
            /\ wMaxVisit' = Max2(wMaxVisit, d)
            /\ wVisited' = wVisited \cup {n}

\* findUnits: const weapons = extractWeapons(entry, entryIndex);
WStart ==
    /\ wPc = "ready"
    /\ wPc' = "run"
    /\ wStack' = <<Frame(UnitNode, 0)>>
    /\ Enter(UnitNode, 0)
    /\ UNCHANGED <<wProfile, wLink, wWeapons, notWeaponVars>>

\* The running call makes its next recursive call, at depth + 1.
WCall ==
    /\ wPc = "run"
    /\ wStack # <<>>
    /\ LET top == wStack[Len(wStack)]
       IN  /\ top.todo # <<>>
           /\ wStack' = [wStack EXCEPT ![Len(wStack)].todo = Tail(top.todo)]
                           \o <<Frame(Head(top.todo), top.depth + 1)>>
           /\ Enter(Head(top.todo), top.depth + 1)
    /\ UNCHANGED <<wPc, wProfile, wLink, wWeapons, notWeaponVars>>

\* The running call has no call left to make and returns its weapons.
WReturn ==
    /\ wPc = "run"
    /\ wStack # <<>>
    /\ wStack[Len(wStack)].todo = <<>>
    /\ wStack' = SubSeq(wStack, 1, Len(wStack) - 1)
    /\ wPc' = IF Len(wStack) = 1 THEN "returned" ELSE "run"
    /\ UNCHANGED <<wProfile, wLink, wOut, wMaxDepth, wMaxVisit, wVisited, wWeapons,
                   notWeaponVars>>

\* findUnits: deduplicate weapons by name+type into the unit record.
WDedup ==
    /\ wPc = "returned"
    /\ wWeapons' = dedupWeapons(wOut)
    /\ wPc' = "done"
    /\ UNCHANGED <<wProfile, wLink, wStack, wOut, wMaxDepth, wMaxVisit, wVisited,
                   notWeaponVars>>

WeaponNext == WStart \/ WCall \/ WReturn \/ WDedup

\* extractWeapons(node, entryIndex, depth) as the function the code defines.
RECURSIVE extractWeapons(_, _)
extractWeapons(n, depth) ==
    IF depthExceeded(depth) THEN <<>>
    ELSE LET rec(c) == extractWeapons(c, depth + 1)
         IN  directWeapons(n) \o FlatMap(rec, recursiveCalls(n))

WeaponKey(w) == <<w.name, w.type>>

\* The entry graph holds a cross-reference cycle through the unit entry.
UnitOnLinkCycle ==
    \/ wLink[UnitNode] = UnitNode
    \/ \E s \in SharedNodes : wLink[UnitNode] = s /\ wLink[s] = UnitNode

\* C1 as stated: no call of extractWeapons is made at a depth greater than 6.
NoCallDeeperThanSix == wMaxDepth <= MaxDepth

\* C1, amended: extractWeapons terminates for every entry graph, cyclic ones
\* included; no call is made at a depth greater than 7, a call at depth 7
\* returns at once without reading its node, so that no node is read at a
\* depth greater than 6; and the weapons of every node read are returned.
WeaponsTerminateWithinBound ==
    /\ [](/\ wMaxDepth <= MaxDepth + 1
          /\ wMaxVisit <= MaxDepth
          /\ Len(wStack) <= MaxDepth + 2
          /\ (wPc \in {"returned", "done"} =>
                 /\ wStack = <<>>
                 /\ wOut = extractWeapons(UnitNode, 0)
                 /\ \A n \in wVisited :
                       Range(directWeapons(n)) \subseteq Range(wOut)))
    /\ <>(wPc = "done")

\* C1 witness: a cycle through the unit entry was cut at the depth bound and
\* the unit's own weapon is in the returned list.
WeaponsCycleWitness ==
    /\ wPc = "done"
    /\ wLink[UnitNode] \in SharedNodes
    /\ wLink[wLink[UnitNode]] = UnitNode
    /\ wMaxDepth = MaxDepth + 1
    /\ wProfile[UnitNode] # <<>>
    /\ Range(directWeapons(UnitNode)) \subseteq Range(wOut)

\* The first weapon with key k in the order the code visits the unit:
\* its own profiles, its child entry, its child group, then the link targets.
FirstWithKey(k) ==
    LET all == extractWeapons(UnitNode, 0)
    IN  all[Min({i \in DOMAIN all : WeaponKey(all[i]) = k})]

\* C6: the emitted unit holds at most one weapon per (name, kind), the first
\* in traversal order: the unit's own profile before its child entry's, that
\* before its child group's, that before any cross-referenced entry's.
WeaponsDedupFirstWins ==
    wPc = "done" =>
        /\ \A i, j \in DOMAIN wWeapons :
              WeaponKey(wWeapons[i]) = WeaponKey(wWeapons[j]) => i = j
        /\ {WeaponKey(w) : w \in Range(wWeapons)}
              = {WeaponKey(w) : w \in Range(extractWeapons(UnitNode, 0))}
        /\ \A w \in Range(wWeapons) :
              /\ w = FirstWithKey(WeaponKey(w))
              /\ \A n \in {UnitNode, 2, 3} :
                    (\E d \in Range(directWeapons(n)) : WeaponKey(d) = WeaponKey(w))
                        => w.strength <= n

\* C6 witness: the same (name, kind) on the unit's child entry and on a
\* cross-referenced shared entry; one record is kept, the child entry's.
WeaponsDedupWitness ==
    /\ wPc = "done"
    /\ wProfile[UnitNode] = <<>>
    /\ wProfile[3] = <<>>
    /\ wProfile[2] # <<>>
    /\ wLink[UnitNode] \in SharedNodes
    /\ wProfile[wLink[UnitNode]] = wProfile[2]
    /\ Len(wOut) >= 2
    /\ Len(wWeapons) = 1
    /\ wWeapons[1].strength = 2

(***************************************************************************)
(* Points tiers                                                            *)
(***************************************************************************)
\* Most cost modifiers on one entry.
MaxModifiers == 1

\* parseInt of the value attributes the extractor reads.  An absent or
\* non-numeric attribute behaves as 0 in every use (parseInt(x) || d, x > 0).
PtsValues == {0, 90}
MinSelectionsValues == {-1, 0, 5}
ModifierValues == {0, 180}
ThresholdValues == {0, 5}

\* The pts-field modifiers of an entry, each with one 'atLeast selections'
\* condition.
Modifiers == [value : ModifierValues, atLeast : ThresholdValues]

\* The 'min selections' constraint values of the entry's child groups, in
\* document order.
MinConstraints == SeqsUpTo(MinSelectionsValues, 1)

extractPointsTiers(node) ==
    LET basePoints == parseIntOr(node.pts, 0)
        minModels ==
            IF node.minSelections = <<>> THEN 1
            ELSE parseIntOr(node.minSelections[Len(node.minSelections)], 1)
        base ==
            IF basePoints > 0
            THEN <<[model_count |-> IF minModels = 0 THEN 1 ELSE minModels,
                    points |-> basePoints]>>
            ELSE <<>>
        oneMod(mod) ==
            LET newPts == parseIntOr(mod.value, 0)
                modelThreshold == parseIntOr(mod.atLeast, 0)
            IN  IF newPts > 0 /\ modelThreshold > 0
                THEN <<[model_count |-> modelThreshold, points |-> newPts]>>
                ELSE <<>>
        tiers == base \o FlatMap(oneMod, node.modifiers)
    IN  IF tiers = <<>> /\ basePoints > 0
        THEN <<[model_count |-> 1, points |-> basePoints]>>
        ELSE tiers

(***************************************************************************)
(* parseCatalog.findUnits                                                  *)
(***************************************************************************)
UnitNames == {"X", "Y"}

\* A selection entry as findUnits reads it: name, type, hidden flag, whether
\* extractStats finds a Unit profile in it, and its cost data.
Entries ==
    [name : UnitNames, type : {"unit", "model", "upgrade"}, hidden : BOOLEAN,
     stats : BOOLEAN, pts : PtsValues, minSelections : MinConstraints,
     modifiers : SeqsUpTo(Modifiers, MaxModifiers)]

\* The faction label parseCatalog derives from the document's title, and
\* the clean name the CATALOGS entry gives the faction.
DocFaction == "Library - Tyranids"
CleanFaction == "Tyranids"

\* A plausible slip: an identifier that differs from run to run.
uuidPerRun(seed) == <<run, seed>>

\* uuidFromSeed of a seed string: the seed itself, part by part.
uuidFromSeed(seed) == seed

hasDirectCost(entry) == entry.pts > 0

\* The record findUnits pushes for an entry, with the entry's hidden flag
\* kept beside it.  stats stands for the stat columns (movement .. OC) read
\* from extractStats' result; the weapons, abilities and wargear options of
\* the entry are left out of the entries this loop is run on.
UnitRecord(node) ==
    [id |-> uuidFromSeed(<<"unit", DocFaction, node.name>>),
     name |-> node.name,
     stats |-> node.stats,
     points_tiers |-> extractPointsTiers(node),
     weapons |-> <<>>,
     abilities |-> <<>>,
     wargear_options |-> <<>>,
     hidden |-> node.hidden]

\* The guards between the type test and units.push, shared by both loops.
Admit(node) ==
    IF \/ node.name \in seenUnitNames
       \/ ~node.stats
       \/ extractPointsTiers(node) = <<>>
    THEN UNCHANGED <<units, seenUnitNames>>
    ELSE /\ seenUnitNames' = seenUnitNames \cup {node.name}
         /\ units' = Append(units, UnitRecord(node))

\* The test of the selection-entry loop.
selected(entry) ==
    /\ entry.type = "unit" \/ (entry.type = "model" /\ hasDirectCost(entry))
    /\ ~entry.hidden

\* The test of the entryLink loop, on the link's target.
selectedTarget(target) == target.type = "unit" \/ target.type = "model"

PipelineIdle ==
    /\ pPc = "idle"
    /\ units = <<>>
    /\ seenUnitNames = {}
    /\ mergedUnits = <<>>
    /\ batch = <<>>
    /\ stmt = 0
    /\ db = <<>>
    /\ dbBefore = <<>>

\* One iteration of the loop over node.selectionEntries.selectionEntry: of
\* the catalogue, or of its sharedSelectionEntries.
FindUnitsEntry(entry) ==
    /\ pPc \in {"entries", "shared"}
    /\ IF selected(entry)
       THEN Admit(entry)
       ELSE UNCHANGED <<units, seenUnitNames>>
    /\ UNCHANGED <<pPc, mergedUnits, batch, stmt, db, dbBefore, notPipelineVars>>

\* One iteration of the loop over the catalogue's entryLinks, whose targetId
\* the entry index resolves to `target`.
FindUnitsLink(target) ==
    /\ pPc = "links"
    /\ IF selectedTarget(target)
       THEN Admit(target)
       ELSE UNCHANGED <<units, seenUnitNames>>
    /\ UNCHANGED <<pPc, mergedUnits, batch, stmt, db, dbBefore, notPipelineVars>>

\* A loop of findUnits has run through its list.
FindUnitsLoopEnds ==
    /\ pPc \in {"entries", "links", "shared"}
    /\ pPc' = CASE pPc = "entries" -> "links"
                [] pPc = "links" -> "shared"
                [] pPc = "shared" -> "parsed"
    /\ UNCHANGED <<units, seenUnitNames, mergedUnits, batch, stmt, db, dbBefore,
                   notPipelineVars>>

(***************************************************************************)
(* The schema                                                              *)
(***************************************************************************)
GameTables ==
    {"factions", "detachments", "enhancements", "units", "unit_points_tiers",
     "weapons", "abilities", "wargear_options"}
UserTables ==
    {"army_lists", "army_list_units", "army_list_enhancements",
     "army_list_unit_wargear"}
Tables == GameTables \cup UserTables

\* The tables each table's foreign keys reference.
References ==
    [t \in Tables |->
        CASE t = "factions" -> {}
          [] t = "detachments" -> {"factions"}
          [] t = "units" -> {"factions"}
          [] t = "unit_points_tiers" -> {"units"}
          [] t = "weapons" -> {"units"}
          [] t = "abilities" -> {"units"}
          [] t = "enhancements" -> {"detachments"}
          [] t = "wargear_options" -> {"units"}
          [] t = "army_lists" -> {"factions", "detachments"}
          [] t = "army_list_units" -> {"army_lists", "units"}
          [] t = "army_list_enhancements" ->
                {"army_lists", "enhancements", "army_list_units"}
          [] t = "army_list_unit_wargear" ->
                {"army_list_units", "wargear_options"}]

\* The tables with a unique constraint or unique index besides the primary
\* key; a row's uq field holds the value of the constrained columns.
UniqueTables ==
    {"factions", "detachments", "unit_points_tiers", "wargear_options",
     "army_list_unit_wargear"}

\* A row: its primary key, its unique-constraint columns, its other columns.
Row(pk, uq, data) == [pk |-> pk, uq |-> uq, data |-> data]

EmptyDb == [t \in Tables |-> {}]

\* Game data left by an earlier run.
SeededDb ==
    [EmptyDb EXCEPT
        !["factions"] = {Row(<<"faction", CleanFaction>>, CleanFaction, 0)},
        !["detachments"] =
            {Row(<<"detachment", CleanFaction, "Index">>,
                 <<<<"faction", CleanFaction>>, "Index">>, 0)},
        !["units"] = {Row(<<"unit", CleanFaction, "X">>, 0, 0)},
        !["unit_points_tiers"] =
            {Row(<<"auto", 1>>, <<<<"unit", CleanFaction, "X">>, 1>>, 90)}]

\* The same with a roster a user has built on it.
RosterDb ==
    [SeededDb EXCEPT
        !["army_lists"] = {Row("list1", 0, <<"faction", CleanFaction>>)},
        !["army_list_units"] =
            {Row("listunit1", 0, <<"list1", <<"unit", CleanFaction, "X">>>>)}]

PriorDbs == {EmptyDb, RosterDb}

\* TRUNCATE t CASCADE empties t and every table that references a table it
\* empties.
RECURSIVE CascadeClosure(_)
CascadeClosure(S) ==
    LET more == {u \in Tables : References[u] \cap S # {}}
    IN  IF more \subseteq S THEN S ELSE CascadeClosure(S \cup more)

Truncate(d, t) == [u \in Tables |-> IF u \in CascadeClosure({t}) THEN {} ELSE d[u]]

\* INSERT of `rows` into a table holding `existing`.  mode is "plain",
\* "update" (ON CONFLICT (unique columns) DO UPDATE) or "nothing"
\* (ON CONFLICT (unique columns) DO NOTHING).  ok is FALSE when the
\* statement raises a primary-key or unique violation.
RECURSIVE InsertRows(_, _, _, _)
InsertRows(existing, rows, mode, hasUnique) ==
    IF rows = <<>> THEN [ok |-> TRUE, rows |-> existing]
    ELSE LET r == Head(rows)
             pkHit == \E x \in existing : x.pk = r.pk
             uqHit == hasUnique /\ \E x \in existing : x.uq = r.uq
         IN  IF ~pkHit /\ ~uqHit
             THEN InsertRows(existing \cup {r}, Tail(rows), mode, hasUnique)
             ELSE IF uqHit /\ mode = "nothing"
             THEN InsertRows(existing, Tail(rows), mode, hasUnique)
             ELSE IF uqHit /\ mode = "update"
             THEN InsertRows({IF x.uq = r.uq THEN [x EXCEPT !.data = r.data] ELSE x :
                                 x \in existing},
                             Tail(rows), mode, hasUnique)
             ELSE [ok |-> FALSE, rows |-> existing]

(***************************************************************************)
(* The main loop and the emitter                                           *)
(***************************************************************************)
\* The clean-up statements of the migration header, in order.
CleanTables ==
    <<"army_list_unit_wargear", "wargear_options", "abilities", "weapons",
      "unit_points_tiers", "army_list_enhancements", "army_list_units",
      "army_lists", "enhancements", "detachments", "units", "factions">>

header == [i \in DOMAIN CleanTables |-> [op |-> "TRUNCATE", table |-> CleanTables[i]]]

Insert(table, rows, mode) ==
    [op |-> "INSERT", table |-> table, rows |-> rows, mode |-> mode]

\* The statements generateSQL writes for one unit.  The rows of
\* unit_points_tiers, weapons and abilities get their id from the database.
unitSQL(faction, unit) ==
    <<Insert("units",
             <<Row(unit.id, 0, <<faction.factionId, unit.name, unit.stats>>)>>,
             "plain")>>
    \o (IF unit.points_tiers # <<>>
        THEN <<Insert("unit_points_tiers",
                      [i \in DOMAIN unit.points_tiers |->
                          Row(<<"auto", unit.id, i>>,
                              <<unit.id, unit.points_tiers[i].model_count>>,
                              unit.points_tiers[i].points)],
                      "plain")>>
        ELSE <<>>)
    \o (IF unit.weapons # <<>>
        THEN <<Insert("weapons",
                      [i \in DOMAIN unit.weapons |->
                          Row(<<"auto", unit.id, "weapon", i>>, 0,
                              <<unit.id, unit.weapons[i]>>)],
                      "plain")>>
        ELSE <<>>)
    \o (IF unit.abilities # <<>>
        THEN <<Insert("abilities",
                      [i \in DOMAIN unit.abilities |->
                          Row(<<"auto", unit.id, "ability", i>>, 0,
                              <<unit.id, unit.abilities[i]>>)],
                      "plain")>>
        ELSE <<>>)
    \o (IF unit.wargear_options # <<>>
        THEN <<Insert("wargear_options",
                      [i \in DOMAIN unit.wargear_options |->
                          LET wo == unit.wargear_options[i]
                          IN  Row(uuidFromSeed(<<"wargear", faction.factionName,
                                                unit.name, wo.group_name, wo.name>>),
                                  <<unit.id, wo.group_name, wo.name>>,
                                  <<unit.id, wo.is_default, wo.points>>)],
                      "nothing")>>
        ELSE <<>>)

generateSQL(faction) ==
    LET detId(d) == uuidFromSeed(<<"detachment", faction.factionName, d.name>>)
        enh(d, e) ==
            Insert("enhancements",
                   <<Row(uuidFromSeed(<<"enhancement", faction.factionName,
                                        d.name, e.name>>),
                         0, <<detId(d), e.name, e.points>>)>>,
                   "plain")
        det(d) ==
            <<Insert("detachments",
                     <<Row(detId(d), <<faction.factionId, d.name>>, d.ruleText)>>,
                     "update")>>
            \o [i \in DOMAIN d.enhancements |-> enh(d, d.enhancements[i])]
        unit(u) == unitSQL(faction, u)
    IN  <<Insert("factions",
                 <<Row(faction.factionId, faction.factionName, 0)>>, "update")>>
        \o FlatMap(det, faction.detachments)
        \o FlatMap(unit, faction.units)

\* A plausible slip: a later document's unit replaces the kept one.
RECURSIVE mergeUnitsLastWins(_, _, _, _)
mergeUnitsLastWins(merged, seen, docUnits, factionName) ==
    IF docUnits = <<>> THEN [units |-> merged, seen |-> seen]
    ELSE LET unit == [Head(docUnits) EXCEPT
                         !.id = uuidFromSeed(<<"unit", factionName,
                                               Head(docUnits).name>>)]
         IN  IF unit.name \in seen
             THEN mergeUnitsLastWins(
                      [i \in DOMAIN merged |->
                          IF merged[i].name = unit.name THEN unit ELSE merged[i]],
                      seen, Tail(docUnits), factionName)
             ELSE mergeUnitsLastWins(Append(merged, unit), seen \cup {unit.name},
                                     Tail(docUnits), factionName)

\* A plausible slip: the kept unit keeps the id parseCatalog gave it.
RECURSIVE mergeUnitsKeepId(_, _, _, _)
mergeUnitsKeepId(merged, seen, docUnits, factionName) ==
    IF docUnits = <<>> THEN [units |-> merged, seen |-> seen]
    ELSE LET unit == Head(docUnits)
         IN  IF unit.name \in seen
             THEN mergeUnitsKeepId(merged, seen, Tail(docUnits), factionName)
             ELSE mergeUnitsKeepId(Append(merged, unit), seen \cup {unit.name},
                                   Tail(docUnits), factionName)

\* The merge of a document's units into the faction's merged units: a unit
\* is kept when its name is new, and its id is rebased on the clean faction
\* name.
RECURSIVE mergeUnitsInto(_, _, _, _)
mergeUnitsInto(merged, seen, docUnits, factionName) ==
    IF docUnits = <<>> THEN [units |-> merged, seen |-> seen]
    ELSE LET unit == Head(docUnits)
         IN  IF unit.name \in seen
             THEN mergeUnitsInto(merged, seen, Tail(docUnits), factionName)
             ELSE mergeUnitsInto(
                      Append(merged,
                             [unit EXCEPT !.id = uuidFromSeed(<<"unit", factionName,
                                                                unit.name>>)]),
                      seen \cup {unit.name}, Tail(docUnits), factionName)

\* The merge for a faction with one document.
mergeUnits(docUnits) == mergeUnitsInto(<<>>, {}, docUnits, CleanFaction).units

\* A plausible slip: every detachment of every document is kept.
mergeDetachmentsAll(merged, docDetachments) == merged \o docDetachments

\* The merge of a document's detachments: a detachment is kept when no kept
\* detachment has its name.
RECURSIVE mergeDetachmentsInto(_, _)
mergeDetachmentsInto(merged, docDetachments) ==
    IF docDetachments = <<>> THEN merged
    ELSE LET det == Head(docDetachments)
         IN  IF \E i \in DOMAIN merged : merged[i].name = det.name
             THEN mergeDetachmentsInto(merged, Tail(docDetachments))
             ELSE mergeDetachmentsInto(Append(merged, det), Tail(docDetachments))

defaultDetachment ==
    [name |-> "Index", ruleText |-> "Default detachment using index rules.",
     enhancements |-> <<>>]

\* A plausible slip: the detachments are passed on as found.
detachmentsAsFound(detachments) == detachments

\* If no detachments were found, a default one is created.
withDefaultDetachment(detachments) ==
    IF detachments = <<>> THEN <<defaultDetachment>> ELSE detachments

\* The main loop for the faction: merge, skip a faction without units, add
\* the default detachment, generate the faction's statements; then the
\* migration is written: the header followed by the statements.
MergeAndWrite ==
    /\ pPc = "parsed"
    /\ mergedUnits' = mergeUnits(units)
    /\ batch' = header \o
                  (IF mergedUnits' = <<>> THEN <<>>
                   ELSE generateSQL([factionName |-> CleanFaction,
                                     factionId |-> uuidFromSeed(<<"faction", CleanFaction>>),
                                     detachments |-> <<defaultDetachment>>,
                                     units |-> mergedUnits']))
    /\ stmt' = 1
    /\ pPc' = "apply"
    /\ UNCHANGED <<units, seenUnitNames, db, dbBefore, notPipelineVars>>

\* The database executes the next statement of the migration; a statement
\* that raises aborts the migration.
ApplyStatement ==
    /\ pPc = "apply"
    /\ stmt <= Len(batch)
    /\ LET st == batch[stmt]
       IN  IF st.op = "TRUNCATE"
           THEN /\ db' = Truncate(db, st.table)
                /\ pPc' = IF stmt = Len(batch) THEN "applied" ELSE "apply"
           ELSE LET res == InsertRows(db[st.table], st.rows, st.mode,
                                      st.table \in UniqueTables)
                IN  IF res.ok
                    THEN /\ db' = [db EXCEPT ![st.table] = res.rows]
                         /\ pPc' = IF stmt = Len(batch) THEN "applied" ELSE "apply"
                    ELSE /\ db' = db
                         /\ pPc' = "failed"
    /\ stmt' = stmt + 1
    /\ UNCHANGED <<units, seenUnitNames, mergedUnits, batch, dbBefore, notPipelineVars>>

PipelineInput ==
    /\ pPc = "entries"
    /\ units = <<>>
    /\ seenUnitNames = {}
    /\ mergedUnits = <<>>
    /\ batch = <<>>
    /\ stmt = 0
    /\ db \in PriorDbs
    /\ dbBefore = db

PipelineNext ==
    \/ \E entry \in Entries : FindUnitsEntry(entry)
    \/ \E target \in Entries : FindUnitsLink(target)
    \/ FindUnitsLoopEnds
    \/ MergeAndWrite
    \/ ApplyStatement

\* C2: no two points tiers of an emitted unit have the same model_count.
TierModelCountsUnique ==
    \A k \in DOMAIN units :
        \A i, j \in DOMAIN units[k].points_tiers :
            units[k].points_tiers[i].model_count = units[k].points_tiers[j].model_count
                => i = j

\* C3: no statement of the applied batch violates a primary-key or unique
\* constraint.
BatchViolatesNoKey == pPc # "failed"

\* C4: the rows the user tables held before the run are still there.
UserRowsSurviveRun == \A t \in UserTables : dbBefore[t] \subseteq db[t]

\* C9: no emitted unit comes from an entry flagged hidden.
NoHiddenUnitEmitted == \A k \in DOMAIN units : ~units[k].hidden

\* C10: every emitted unit has a points tier, and every emitted tier has
\* points > 0 and model_count > 0.
EmittedTiersPositive ==
    \A k \in DOMAIN units :
        /\ units[k].points_tiers # <<>>
        /\ \A i \in DOMAIN units[k].points_tiers :
              /\ units[k].points_tiers[i].points > 0
              /\ units[k].points_tiers[i].model_count > 0

(***************************************************************************)
(* Wargear options                                                         *)
(***************************************************************************)
\* Most options extracted from one unit entry.
MaxOptions == 3

\* '@_name' of a child group of the unit, and of a sub-group ("" when the
\* sub-group has no name).
GroupNames == {"Wargear", "Other"}
SubgroupNames == {"", "Weapon 1"}

\* '@_name' of an entry or link ("" when a link has none), the entry types,
\* and parseInt of the value of a pts cost.
OptionNames == {"a", "b"}
LinkNames == OptionNames \cup {""}
EntryTypes == {"upgrade", "model"}
OptionPts == {0, 5}

Option(group, name, isDefault, pts) ==
    [group_name |-> group, name |-> name, is_default |-> isDefault,
     points |-> parseIntOr(pts, 0)]

\* options.filter(o => o.group_name === g).length === 0
noneInGroup(g) == \A i \in DOMAIN options : options[i].group_name # g

WargearIdle ==
    /\ gPc = "idle"
    /\ options = <<>>
    /\ idx = 0
    /\ sgName = ""
    /\ sgIdx = 0

WargearInput ==
    /\ gPc = "groups"
    /\ options = <<>>
    /\ idx = 0
    /\ sgName = ""
    /\ sgIdx = 0

\* The loop over the unit's child groups takes the next group: a group not
\* named "Wargear" is passed over.
WgGroup(name) ==
    /\ gPc = "groups"
    /\ gPc' = IF name = "Wargear" THEN "directEntries" ELSE "groups"
    /\ idx' = 0
    /\ UNCHANGED <<options, sgName, sgIdx, notWargearVars>>

\* The next direct entry of the group: only 'upgrade' entries are options,
\* and idx counts them.
WgDirectEntry(type, name, pts) ==
    /\ gPc = "directEntries"
    /\ Len(options) < MaxOptions
    /\ IF type = "upgrade"
       THEN /\ options' = Append(options, Option("Wargear", name, idx = 0, pts))
            /\ idx' = idx + 1
       ELSE UNCHANGED <<options, idx>>
    /\ UNCHANGED <<gPc, sgName, sgIdx, notWargearVars>>

\* The next entryLink of the group.
WgDirectLink(linkName, pts) ==
    /\ gPc = "directLinks"
    /\ Len(options) < MaxOptions
    /\ IF linkName = ""
       THEN UNCHANGED options
       ELSE options' = Append(options,
                Option("Wargear", linkName, noneInGroup("Wargear"), pts))
    /\ UNCHANGED <<gPc, idx, sgName, sgIdx, notWargearVars>>

\* The loop over the group's sub-groups takes the next sub-group.
WgSubgroup(name) ==
    /\ gPc = "subgroups"
    /\ sgName' = IF name = "" THEN "Wargear" ELSE name
    /\ sgIdx' = 0
    /\ gPc' = "subEntries"
    /\ UNCHANGED <<options, idx, notWargearVars>>

\* The next entry of the sub-group.
WgSubEntry(type, name, pts) ==
    /\ gPc = "subEntries"
    /\ Len(options) < MaxOptions
    /\ IF type = "upgrade"
       THEN /\ options' = Append(options, Option(sgName, name, sgIdx = 0, pts))
            /\ sgIdx' = sgIdx + 1
       ELSE UNCHANGED <<options, sgIdx>>
    /\ UNCHANGED <<gPc, idx, sgName, notWargearVars>>

\* The next entryLink of the sub-group.
WgSubLink(linkName, pts) ==
    /\ gPc = "subLinks"
    /\ Len(options) < MaxOptions
    /\ IF linkName = ""
       THEN UNCHANGED <<options, sgIdx>>
       ELSE /\ options' = Append(options,
                   Option(sgName, linkName, noneInGroup(sgName), pts))
            /\ sgIdx' = sgIdx + 1
    /\ UNCHANGED <<gPc, idx, sgName, notWargearVars>>

\* A loop has run through its list: control passes to the code after it.
WgLoopEnds ==
    /\ gPc \in {"groups", "directEntries", "directLinks", "subgroups",
               "subEntries", "subLinks"}
    /\ gPc' = CASE gPc = "directEntries" -> "directLinks"
                [] gPc = "directLinks" -> "subgroups"
                [] gPc = "subEntries" -> "subLinks"
                [] gPc = "subLinks" -> "subgroups"
                [] gPc = "subgroups" -> "groups"
                [] gPc = "groups" -> "done"
    /\ UNCHANGED <<options, idx, sgName, sgIdx, notWargearVars>>

WargearNext ==
    \/ \E name \in GroupNames : WgGroup(name)
    \/ \E type \in EntryTypes, name \in OptionNames, pts \in OptionPts :
          WgDirectEntry(type, name, pts)
    \/ \E linkName \in LinkNames, pts \in OptionPts : WgDirectLink(linkName, pts)
    \/ \E name \in SubgroupNames : WgSubgroup(name)
    \/ \E type \in EntryTypes, name \in OptionNames, pts \in OptionPts :
          WgSubEntry(type, name, pts)
    \/ \E linkName \in LinkNames, pts \in OptionPts : WgSubLink(linkName, pts)
    \/ WgLoopEnds

\* C5: in every option group exactly one option is the default, the first of
\* the group in extraction order, and no two options share group and name.
OneDefaultPerGroup ==
    gPc = "done" =>
        /\ \A i \in DOMAIN options :
              options[i].is_default <=>
                 (\A j \in 1..(i - 1) : options[j].group_name # options[i].group_name)
        /\ \A i, j \in DOMAIN options :
              (/\ options[i].group_name = options[j].group_name
               /\ options[i].name = options[j].name) => i = j

(***************************************************************************)
(* The main loop over CATALOGS                                             *)
(***************************************************************************)
\* Two entries of CATALOGS, in their order: a faction with a library file
\* and a faction with one file.  A name is written as catName below.
CATALOGS ==
    <<[files |-> <<"Genestealer Cults.cat", "Library - Tyranids.cat">>,
       name |-> <<<<"Genestealer", "Cults">>>>],
      [files |-> <<"Necrons.cat">>, name |-> <<<<"Necrons">>>>]>>

CatalogFiles == UNION {Range(CATALOGS[i].files) : i \in DOMAIN CATALOGS}

\* The '@_name' of the catalogue element of each file: its parts between
\* " - ", each part a sequence of words.
catName ==
    [f \in CatalogFiles |->
        CASE f = "Genestealer Cults.cat" -> <<<<"Genestealer", "Cults">>>>
          [] f = "Library - Tyranids.cat" -> <<<<"Library">>, <<"Tyranids">>>>
          [] f = "Necrons.cat" -> <<<<"Xenos">>, <<"Necrons">>>>]

\* The chain of replace calls parseCatalog applies to catName.
factionNameOf(name) ==
    LET dropPrefix(n, prefix) ==
            IF Len(n) > 1 /\ n[1] = prefix THEN Tail(n) ELSE n
        dropSuffix(n, suffix) ==
            IF Len(n) > 1 /\ n[Len(n)] = suffix THEN SubSeq(n, 1, Len(n) - 1) ELSE n
        dropLastWord(n, word) ==
            LET last == n[Len(n)]
            IN  IF Len(last) > 1 /\ last[Len(last)] = word
                THEN [n EXCEPT ![Len(n)] = SubSeq(last, 1, Len(last) - 1)]
                ELSE n
        n1 == dropPrefix(name, <<"Imperium">>)
        n2 == dropPrefix(n1, <<"Chaos">>)
        n3 == dropPrefix(n2, <<"Aeldari">>)
        n4 == dropSuffix(n3, <<"Library">>)
        n5 == dropPrefix(n4, <<"Adeptus", "Astartes">>)
        n6 == dropPrefix(n5, <<"Xenos">>)
    IN  dropLastWord(n6, "Library")

\* Most units and most detachments parseCatalog finds in one document.
MaxDocUnits == 1
MaxDocDetachments == 2

\* What a document says of a unit or a detachment: its name and which of
\* two versions of its data the document carries.
UnitChoices == {<<"X", 1>>, <<"X", 2>>, <<"Y", 1>>}
DetachmentChoices == {<<"D", 1>>, <<"D", 2>>}

\* findUnits keeps one unit per name; extractDetachments keeps every entry
\* of the detachment group.
DocUnitLists ==
    {us \in SeqsUpTo(UnitChoices, MaxDocUnits) :
        \A i, j \in DOMAIN us : us[i][1] = us[j][1] => i = j}
DocDetachmentLists == SeqsUpTo(DetachmentChoices, MaxDocDetachments)

\* What a file of DATA_DIR may be: absent, a text the XML parser or
\* readFileSync raises on, a document without a catalogue element, or a
\* catalogue.
FileContents ==
    [kind : {"missing", "throws", "nocatalogue"}, units : {<<>>},
     detachments : {<<>>}]
        \cup [kind : {"catalogue"}, units : DocUnitLists,
              detachments : DocDetachmentLists]

\* The seed migration of OUT_DIR: absent, or a file with its statements.
NoMigration == [present |-> FALSE, statements |-> <<>>]
Migration(statements) == [present |-> TRUE, statements |-> statements]

\* The unit record findUnits builds from a unit of version v.
DocUnit(label, choice) ==
    [id |-> uuidFromSeed(<<"unit", label, choice[1]>>),
     name |-> choice[1],
     stats |-> choice[2],
     points_tiers |-> <<[model_count |-> 1, points |-> 90 * choice[2]]>>,
     weapons |-> IF choice[2] = 1 THEN <<"bolter">> ELSE <<>>,
     abilities |-> <<"Leader">>,
     wargear_options |->
        <<[group_name |-> "Wargear", name |-> "a", is_default |-> TRUE,
           points |-> 0]>>,
     hidden |-> FALSE]

\* The detachment record extractDetachments builds.
DocDetachment(choice) ==
    [name |-> choice[1],
     ruleText |-> IF choice[2] = 1 THEN "rule text A" ELSE "rule text B",
     enhancements |->
        IF choice[2] = 1 THEN <<[name |-> "e", points |-> 10]>> ELSE <<>>]

\* What parseCatalog returns for a file holding a catalogue.
parseCatalog(file, content) ==
    LET factionName == factionNameOf(catName[file])
    IN  [factionName |-> factionName,
         factionId |-> uuidFromSeed(<<"faction", factionName>>),
         detachments |->
            [i \in DOMAIN content.detachments |->
                DocDetachment(content.detachments[i])],
         units |->
            [i \in DOMAIN content.units |->
                DocUnit(factionName, content.units[i])]]

MainIdle ==
    /\ mPc = "idle"
    /\ run = 0
    /\ docs = <<>>
    /\ fIdx = 0
    /\ dIdx = 0
    /\ mainMergedUnits = <<>>
    /\ mergedDetachments = <<>>
    /\ mainSeenUnitNames = {}
    /\ allSQL = <<>>
    /\ totalUnits = 0
    /\ totalFactions = 0
    /\ outFile = NoMigration
    /\ firstFile = NoMigration

MainInput ==
    /\ mPc = "start"
    /\ run = 1
    /\ docs \in [CatalogFiles -> FileContents]
    /\ fIdx = 0
    /\ dIdx = 0
    /\ mainMergedUnits = <<>>
    /\ mergedDetachments = <<>>
    /\ mainSeenUnitNames = {}
    /\ allSQL = <<>>
    /\ totalUnits = 0
    /\ totalFactions = 0
    /\ outFile = Migration(<<>>)
    /\ firstFile = NoMigration

\* The script starts: the seed migrations found in OUT_DIR are deleted and
\* the loop enters the first faction.
DeleteOldMigrations ==
    /\ mPc = "start"
    /\ outFile' = NoMigration
    /\ allSQL' = <<>>
    /\ totalUnits' = 0
    /\ totalFactions' = 0
    /\ fIdx' = 1
    /\ dIdx' = 1
    /\ mainMergedUnits' = <<>>
    /\ mergedDetachments' = <<>>
    /\ mainSeenUnitNames' = {}
    /\ mPc' = "files"
    /\ UNCHANGED <<run, docs, firstFile, notMainVars>>

\* The file the inner loop is at.
catFile == CATALOGS[fIdx].files[dIdx]

\* One iteration of the loop over catalogDef.files whose parseCatalog call
\* returns: a missing file and a null result are passed over, the units and
\* detachments of a catalogue are merged.
ParseFile ==
    /\ mPc = "files"
    /\ dIdx <= Len(CATALOGS[fIdx].files)
    /\ docs[catFile].kind # "throws"
    /\ IF docs[catFile].kind \in {"missing", "nocatalogue"}
       THEN UNCHANGED <<mainMergedUnits, mainSeenUnitNames, mergedDetachments>>
       ELSE LET faction == parseCatalog(catFile, docs[catFile])
                merge == mergeUnitsInto(mainMergedUnits, mainSeenUnitNames,
                                        faction.units, CATALOGS[fIdx].name)
            IN  /\ mainMergedUnits' = merge.units
                /\ mainSeenUnitNames' = merge.seen
                /\ mergedDetachments' =
                      mergeDetachmentsInto(mergedDetachments, faction.detachments)
    /\ dIdx' = dIdx + 1
    /\ UNCHANGED <<mPc, run, docs, fIdx, allSQL, totalUnits, totalFactions,
                   outFile, firstFile, notMainVars>>

\* readFileSync or parser.parse raises inside parseCatalog: nothing catches
\* the exception and the script ends.
ParseCatalogThrows ==
    /\ mPc = "files"
    /\ dIdx <= Len(CATALOGS[fIdx].files)
    /\ docs[catFile].kind = "throws"
    /\ mPc' = "crashed"
    /\ UNCHANGED <<run, docs, fIdx, dIdx, mainMergedUnits, mergedDetachments,
                   mainSeenUnitNames, allSQL, totalUnits, totalFactions,
                   outFile, firstFile, notMainVars>>

\* The rest of the outer loop's body, after the faction's files: a faction
\* without units is skipped, another is counted, given the default
\* detachment if it has none, and its statements are pushed to allSQL.
FinishFaction ==
    /\ mPc = "files"
    /\ dIdx > Len(CATALOGS[fIdx].files)
    /\ IF mainMergedUnits = <<>>
       THEN UNCHANGED <<allSQL, totalUnits, totalFactions>>
       ELSE /\ totalUnits' = totalUnits + Len(mainMergedUnits)
            /\ totalFactions' = totalFactions + 1
            /\ allSQL' =
                  Append(allSQL,
                         generateSQL(
                            [factionName |-> CATALOGS[fIdx].name,
                             factionId |-> uuidFromSeed(<<"faction", CATALOGS[fIdx].name>>),
                             detachments |->
                                withDefaultDetachment(mergedDetachments),
                             units |-> mainMergedUnits]))
    /\ mainMergedUnits' = <<>>
    /\ mergedDetachments' = <<>>
    /\ mainSeenUnitNames' = {}
    /\ dIdx' = 1
    /\ IF fIdx < Len(CATALOGS)
       THEN fIdx' = fIdx + 1 /\ mPc' = "files"
       ELSE fIdx' = fIdx /\ mPc' = "write"
    /\ UNCHANGED <<run, docs, outFile, firstFile, notMainVars>>

RECURSIVE Concat(_)
Concat(ss) == IF ss = <<>> THEN <<>> ELSE Head(ss) \o Concat(Tail(ss))

\* fs.writeFileSync(migrationFile, header + allSQL.join(...)).
WriteMigration ==
    /\ mPc = "write"
    /\ outFile' = Migration(header \o Concat(allSQL))
    /\ mPc' = "written"
    /\ UNCHANGED <<run, docs, fIdx, dIdx, mainMergedUnits, mergedDetachments,
                   mainSeenUnitNames, allSQL, totalUnits, totalFactions,
                   firstFile, notMainVars>>

\* The script is run again on the same files.
RunAgain ==
    /\ mPc \in {"written", "crashed"}
    /\ run = 1
    /\ run' = 2
    /\ firstFile' = outFile
    /\ mPc' = "start"
    /\ UNCHANGED <<docs, fIdx, dIdx, mainMergedUnits, mergedDetachments,
                   mainSeenUnitNames, allSQL, totalUnits, totalFactions,
                   outFile, notMainVars>>

MainNext ==
    \/ DeleteOldMigrations
    \/ ParseFile
    \/ ParseCatalogThrows
    \/ FinishFaction
    \/ WriteMigration
    \/ RunAgain

\* The rows one generated bundle inserts into a table, statement by
\* statement, and the faction the bundle is for.
StatementsOn(sql, table) ==
    {i \in DOMAIN sql : sql[i].op = "INSERT" /\ sql[i].table = table}
RowsOn(sql, table) == UNION {Range(sql[i].rows) : i \in StatementsOn(sql, table)}
BundleFactionName(sql) == sql[1].rows[1].uq
BundleFactionId(sql) == sql[1].rows[1].pk

\* The files of the faction read so far that held a catalogue, and the
\* first of them that has a unit, or a detachment, of a name.
FilesRead == {i \in 1..(dIdx - 1) : docs[CATALOGS[fIdx].files[i]].kind = "catalogue"}
DocOf(i) == docs[CATALOGS[fIdx].files[i]]
LabelOf(i) == factionNameOf(catName[CATALOGS[fIdx].files[i]])
UnitNamesIn(i) == {DocOf(i).units[k][1] : k \in DOMAIN DocOf(i).units}
DetachmentNamesIn(i) ==
    {DocOf(i).detachments[k][1] : k \in DOMAIN DocOf(i).detachments}
FirstUnit(n) ==
    LET i == Min({j \in FilesRead : n \in UnitNamesIn(j)})
        k == Min({j \in DOMAIN DocOf(i).units : DocOf(i).units[j][1] = n})
    IN  DocUnit(LabelOf(i), DocOf(i).units[k])
FirstDetachment(n) ==
    LET i == Min({j \in FilesRead : n \in DetachmentNamesIn(j)})
        k == Min({j \in DOMAIN DocOf(i).detachments : DocOf(i).detachments[j][1] = n})
    IN  DocDetachment(DocOf(i).detachments[k])

\* C11: a file the parser raises on does not end the run: the loop goes on
\* to the later factions and the migration is written.
ParseFailureEndsNoRun == mPc # "crashed"

\* C12: the merged lists hold, for every unit name and every detachment
\* name of the files read so far, exactly one record, and it carries the
\* data of the first file that has the name.
MergeFirstSeenWins ==
    mPc = "files" =>
        /\ {mainMergedUnits[k].name : k \in DOMAIN mainMergedUnits}
              = UNION {UnitNamesIn(i) : i \in FilesRead}
        /\ \A k, l \in DOMAIN mainMergedUnits :
              mainMergedUnits[k].name = mainMergedUnits[l].name => k = l
        /\ \A k \in DOMAIN mainMergedUnits :
              [mainMergedUnits[k] EXCEPT !.id = 0]
                 = [FirstUnit(mainMergedUnits[k].name) EXCEPT !.id = 0]
        /\ {mergedDetachments[k].name : k \in DOMAIN mergedDetachments}
              = UNION {DetachmentNamesIn(i) : i \in FilesRead}
        /\ \A k, l \in DOMAIN mergedDetachments :
              mergedDetachments[k].name = mergedDetachments[l].name => k = l
        /\ \A k \in DOMAIN mergedDetachments :
              mergedDetachments[k] = FirstDetachment(mergedDetachments[k].name)

\* Both files of the first faction define X, with different data, and the
\* merged X is the first file's.
MergeFirstSeenWitness ==
    /\ mPc = "files" /\ fIdx = 1 /\ dIdx = 3
    /\ FilesRead = {1, 2}
    /\ DocOf(1).units = <<<<"X", 2>>>>
    /\ DocOf(2).units = <<<<"X", 1>>>>
    /\ DocOf(1).detachments # <<>>
    /\ DocOf(2).detachments # <<>>
    /\ DocOf(1).detachments[1] # DocOf(2).detachments[1]
    /\ Len(mainMergedUnits) = 1
    /\ mainMergedUnits[1].stats = 2

\* C13: in the statements generated for a faction no two units have the
\* same name and no two detachments have the same name.
BundleNamesUnique ==
    \A b \in DOMAIN allSQL :
        /\ \A i, j \in StatementsOn(allSQL[b], "units") :
              allSQL[b][i].rows[1].data[2] = allSQL[b][j].rows[1].data[2] => i = j
        /\ \A i, j \in StatementsOn(allSQL[b], "detachments") :
              allSQL[b][i].rows[1].uq[2] = allSQL[b][j].rows[1].uq[2] => i = j

\* A bundle was generated from two files that both have X and D, one of
\* them listing D twice.
BundleNamesWitness ==
    /\ mPc = "files" /\ fIdx = 2 /\ dIdx = 1
    /\ Len(allSQL) = 1
    /\ docs["Genestealer Cults.cat"].kind = "catalogue"
    /\ docs["Library - Tyranids.cat"].kind = "catalogue"
    /\ Len(docs["Genestealer Cults.cat"].detachments) = 2
    /\ docs["Library - Tyranids.cat"].detachments # <<>>
    /\ docs["Genestealer Cults.cat"].units = <<<<"X", 1>>>>
    /\ docs["Library - Tyranids.cat"].units = <<<<"X", 2>>>>
    /\ StatementsOn(allSQL[1], "detachments") # {}

\* C14: every generated unit row has the id made from the CATALOGS name of
\* its faction and the unit's name, and every tier, weapon, ability and
\* wargear row of the bundle refers to the id of a unit row of the bundle.
UnitIdsRebased ==
    \A b \in DOMAIN allSQL :
        LET sql == allSQL[b]
            unitIds == {r.pk : r \in RowsOn(sql, "units")}
        IN  /\ \E f \in DOMAIN CATALOGS : BundleFactionName(sql) = CATALOGS[f].name
            /\ \A r \in RowsOn(sql, "units") :
                  r.pk = uuidFromSeed(<<"unit", BundleFactionName(sql), r.data[2]>>)
            /\ \A r \in RowsOn(sql, "unit_points_tiers") : r.uq[1] \in unitIds
            /\ \A r \in RowsOn(sql, "weapons") : r.data[1] \in unitIds
            /\ \A r \in RowsOn(sql, "abilities") : r.data[1] \in unitIds
            /\ \A r \in RowsOn(sql, "wargear_options") :
                  r.uq[1] \in unitIds /\ r.data[1] \in unitIds

\* A bundle's only unit comes from the library file, whose own faction
\* label is not the CATALOGS name, and has tier, weapon, ability and
\* wargear rows.
UnitIdsRebasedWitness ==
    /\ Len(allSQL) >= 1
    /\ docs["Genestealer Cults.cat"].kind = "nocatalogue"
    /\ docs["Library - Tyranids.cat"].kind = "catalogue"
    /\ docs["Library - Tyranids.cat"].units = <<<<"X", 1>>>>
    /\ factionNameOf(catName["Library - Tyranids.cat"]) # CATALOGS[1].name
    /\ BundleFactionName(allSQL[1]) = CATALOGS[1].name
    /\ RowsOn(allSQL[1], "weapons") # {}
    /\ RowsOn(allSQL[1], "wargear_options") # {}
    /\ RowsOn(allSQL[1], "unit_points_tiers") # {}
    /\ RowsOn(allSQL[1], "abilities") # {}

DetachmentsFound(f) ==
    UNION {Range(docs[CATALOGS[f].files[i]].detachments) :
              i \in DOMAIN CATALOGS[f].files}

\* C17: every generated bundle has a detachment; it has the one default
\* detachment 'Index' when no file of the faction holds a detachment, and
\* no default detachment otherwise.
EveryBundleHasADetachment ==
    \A b \in DOMAIN allSQL :
        LET sql == allSQL[b]
            f == CHOOSE g \in DOMAIN CATALOGS : CATALOGS[g].name = BundleFactionName(sql)
            dets == StatementsOn(sql, "detachments")
            defaults == {i \in dets : sql[i].rows[1].uq[2] = "Index"}
        IN  /\ dets # {}
            /\ IF DetachmentsFound(f) = {}
               THEN /\ Cardinality(dets) = 1
                    /\ defaults = dets
                    /\ \A i \in dets :
                          sql[i].rows[1].data = "Default detachment using index rules."
                    /\ RowsOn(sql, "enhancements") = {}
               ELSE defaults = {}

\* One bundle got the default detachment and the next a detachment found.
DefaultDetachmentWitness ==
    /\ Len(allSQL) = 2
    /\ DetachmentsFound(1) = {}
    /\ DetachmentsFound(2) # {}
    /\ \E i \in StatementsOn(allSQL[1], "detachments") :
          allSQL[1][i].rows[1].uq[2] = "Index"

\* The units any file of faction f holds.
UnitsFound(f) ==
    UNION {Range(docs[CATALOGS[f].files[i]].units) : i \in DOMAIN CATALOGS[f].files}

\* C18: when the run is over, a faction has its statements in the migration
\* if and only if its files hold a unit, the statements are the complete
\* bundles, and the totals count the factions that have units.
FactionBundlesEmitted ==
    mPc \in {"written", "crashed"} =>
        /\ totalFactions = Len(allSQL)
        /\ \A b \in DOMAIN allSQL : RowsOn(allSQL[b], "units") # {}
        /\ allSQL # <<>> => outFile = Migration(header \o Concat(allSQL))
        /\ mPc = "written" =>
              \A f \in DOMAIN CATALOGS :
                  UnitsFound(f) # {} <=>
                      \E b \in DOMAIN allSQL :
                          BundleFactionName(allSQL[b]) = CATALOGS[f].name

(***************************************************************************)
(* extractDetachments: enhancements of a detachment                        *)
(***************************************************************************)
\* A name is a sequence of symbols; a symbol stands for a run of characters
\* that the names of the model never split.
Symbols == {"Index", "index", "Raiders", " Enhancements", "Oath"}

\* Most symbols in a group name and in a detachment name.
MaxGroupNameLen == 3
MaxDetNameLen == 2

GroupNameValues == SeqsUpTo(Symbols, MaxGroupNameLen)
DetNameValues == SeqsUpTo(Symbols, MaxDetNameLen) \ {<<>>}
CommentValues == {<<>>, <<"Index">>, <<"index", "Raiders">>, <<"Oath">>}

\* String.prototype.toLowerCase, includes, and replace with a string
\* pattern (which replaces the first occurrence only).
toLowerCase(str) ==
    [i \in DOMAIN str |->
        CASE str[i] = "Index" -> "index"
          [] str[i] = "Raiders" -> "raiders"
          [] str[i] = " Enhancements" -> " enhancements"
          [] str[i] = "Oath" -> "oath"
          [] OTHER -> str[i]]
includes(str, sub) ==
    \E i \in 0..(Len(str) - Len(sub)) : SubSeq(str, i + 1, i + Len(sub)) = sub
replaceFirst(str, symbol) ==
    IF \E i \in DOMAIN str : str[i] = symbol
    THEN LET i == Min({j \in DOMAIN str : str[j] = symbol})
         IN  SubSeq(str, 1, i - 1) \o SubSeq(str, i + 1, Len(str))
    ELSE str

\* A plausible slip: the names are compared as they are written.
groupMatchesDetCaseSensitive(name, det) ==
    \/ includes(name, det)
    \/ includes(det, replaceFirst(name, " enhancements"))

groupMatchesDet(name, det) ==
    LET groupName == toLowerCase(name)
        detNameLower == toLowerCase(det)
    IN  \/ includes(groupName, detNameLower)
        \/ includes(detNameLower, replaceFirst(groupName, " enhancements"))

commentMatchesDet(entryComment, det) ==
    LET comment == toLowerCase(entryComment)
    IN  comment # <<>> /\ comment = toLowerCase(det)

EnhancementIdle ==
    /\ ePc = "idle"
    /\ eDetName = <<>>
    /\ eGroupName = <<>>
    /\ eComment = <<>>
    /\ eOut = <<>>

EnhancementInput ==
    /\ ePc = "ready"
    /\ eDetName \in DetNameValues
    /\ eGroupName \in GroupNameValues
    /\ eComment \in CommentValues
    /\ eOut = <<>>

\* The body of the loop over the detachment entries, for a detachment group
\* with the entry eDetName and an enhancement group eGroupName holding one
\* entry "e".
ParseDetachment ==
    /\ ePc = "ready"
    /\ eOut' =
          Append(eOut,
                 [name |-> eDetName,
                  enhancements |->
                     IF \/ groupMatchesDet(eGroupName, eDetName)
                        \/ commentMatchesDet(eComment, eDetName)
                     THEN <<[name |-> "e", points |-> 10]>>
                     ELSE <<>>])
    /\ ePc' = "done"
    /\ UNCHANGED <<eDetName, eGroupName, eComment, notEnhancementVars>>

EnhancementNext == ParseDetachment

\* The enhancement entry is listed under the detachment.
Attached == eOut[1].enhancements # <<>>

\* The reading of the names the attribution is stated in.
StripSuffix(str) ==
    IF str # <<>> /\ str[Len(str)] = " enhancements"
    THEN SubSeq(str, 1, Len(str) - 1)
    ELSE str
AnnotationMatches ==
    eComment # <<>> /\ toLowerCase(eComment) = toLowerCase(eDetName)

\* C16 as stated: the entry is listed under the detachment if and only if
\* the group's name without an " Enhancements" suffix contains or is
\* contained in the detachment's name, case aside, or the entry's annotation
\* equals the detachment's name, case aside.
AttachedIffSuffixStrippedNameMatches ==
    ePc = "done" =>
        (Attached <=>
            \/ includes(StripSuffix(toLowerCase(eGroupName)), toLowerCase(eDetName))
            \/ includes(toLowerCase(eDetName), StripSuffix(toLowerCase(eGroupName)))
            \/ AnnotationMatches)

\* C16: the entry is listed under the detachment if and only if the group's
\* whole name contains the detachment's name, or the detachment's name
\* contains the group's name without its first " enhancements", case
\* aside, or the entry's annotation equals the detachment's name, case
\* aside; the one detachment is returned whether or not the entry is listed.
\* "Index Raiders Enhancements" attaches to "Index Raiders", and "Oath" does
\* not.
AttachedIffNameMatches ==
    ePc = "done" =>
        LET g == toLowerCase(eGroupName)
            d == toLowerCase(eDetName)
            suffixAt == {i \in DOMAIN g : g[i] = " enhancements"}
            without(i) == SubSeq(g, 1, i - 1) \o SubSeq(g, i + 1, Len(g))
        IN  /\ Len(eOut) = 1 /\ eOut[1].name = eDetName
            /\ Attached <=>
                  \/ includes(g, d)
                  \/ suffixAt = {} /\ includes(d, g)
                  \/ suffixAt # {} /\ includes(d, without(Min(suffixAt)))
                  \/ AnnotationMatches
            /\ (eGroupName = <<"Index", "Raiders", " Enhancements">>
                /\ eDetName = <<"Index", "Raiders">>) => Attached
            /\ (eGroupName = <<"Oath">> /\ eDetName = <<"Index", "Raiders">>
                /\ eComment = <<>>) => ~Attached

\* The group "Index Raiders Enhancements" and the detachment "index
\* Raiders", without annotation: the entry is listed.
AttachedWitness ==
    /\ ePc = "done"
    /\ eGroupName = <<"Index", "Raiders", " Enhancements">>
    /\ eDetName = <<"index", "Raiders">>
    /\ eComment = <<>>
    /\ Attached

(***************************************************************************)
(* extractStats                                                            *)
(***************************************************************************)
\* The entry findUnits looks at and the entries below it:
\*   1  the entry: child entries 2 and 3, a group with the entry 4, and in
\*      that group a sub-group with the entry 5
\*   2  a child entry with the child entry 6 and a group with the entry 7
StatsRoot == 1
StatsNodes == 1..7
childEntries(n) ==
    CASE n = 1 -> <<2, 3>>
      [] n = 2 -> <<6>>
      [] OTHER -> <<>>
\* The selectionEntries of the node's selectionEntryGroups, group by group.
groupEntries(n) ==
    CASE n = 1 -> <<<<4>>>>
      [] n = 2 -> <<<<7>>>>
      [] OTHER -> <<>>

\* Most profiles on the entry itself; an entry below it has one profile or
\* none.
MaxRootProfiles == 2
ProfileTypeNames == {"Unit", "Abilities"}
RootProfileLists == SeqsUpTo(ProfileTypeNames, MaxRootProfiles)
ChildProfileLists == {<<>>} \cup {<<t>> : t \in ProfileTypeNames}

\* parseCharacteristics of a profile: the profile's characteristics, which
\* are told apart by the node and the position of the profile.
parseCharacteristics(n, i) == <<n, i>>

\* A plausible slip: the groups are searched before the child entries.
RECURSIVE extractStatsGroupsFirst(_)
extractStatsGroupsFirst(n) ==
    LET unitProfiles == {i \in DOMAIN sProfiles[n] : sProfiles[n][i] = "Unit"}
        firstOf(ns) ==
            LET found == {k \in DOMAIN ns : extractStatsGroupsFirst(ns[k]) # <<>>}
            IN  IF found = {} THEN <<>> ELSE extractStatsGroupsFirst(ns[Min(found)])
        inChildren == firstOf(childEntries(n))
        inGroups == firstOf(Concat(groupEntries(n)))
    IN  IF unitProfiles # {} THEN parseCharacteristics(n, Min(unitProfiles))
        ELSE IF inGroups # <<>> THEN inGroups
        ELSE inChildren

\* extractStats(node): <<>> stands for null.
RECURSIVE extractStats(_)
extractStats(n) ==
    LET unitProfiles == {i \in DOMAIN sProfiles[n] : sProfiles[n][i] = "Unit"}
        firstOf(ns) ==
            LET found == {k \in DOMAIN ns : extractStats(ns[k]) # <<>>}
            IN  IF found = {} THEN <<>> ELSE extractStats(ns[Min(found)])
        inChildren == firstOf(childEntries(n))
        inGroups == firstOf(Concat(groupEntries(n)))
    IN  IF unitProfiles # {} THEN parseCharacteristics(n, Min(unitProfiles))
        ELSE IF inChildren # <<>> THEN inChildren
        ELSE inGroups

StatsIdle ==
    /\ sPc = "idle"
    /\ sProfiles = <<>>
    /\ sStats = <<>>
    /\ sUnits = <<>>

StatsInput ==
    /\ sPc = "ready"
    /\ \E root \in RootProfileLists,
          below \in [StatsNodes \ {StatsRoot} -> ChildProfileLists] :
          sProfiles = [n \in StatsNodes |->
                          IF n = StatsRoot THEN root ELSE below[n]]
    /\ sStats = <<>>
    /\ sUnits = <<>>

\* const stats = extractStats(entry).
ExtractStats ==
    /\ sPc = "ready"
    /\ sStats' = extractStats(StatsRoot)
    /\ sPc' = "extracted"
    /\ UNCHANGED <<sProfiles, sUnits, notStatsVars>>

\* The rest of the loop body of findUnits for the entry: without stats it is
\* passed over, without points tiers also, and else it is pushed.
PushUnit(hasTiers) ==
    /\ sPc = "extracted"
    /\ sUnits' = IF sStats = <<>> \/ ~hasTiers THEN sUnits ELSE Append(sUnits, "X")
    /\ sPc' = "done"
    /\ UNCHANGED <<sProfiles, sStats, notStatsVars>>

StatsNext ==
    \/ ExtractStats
    \/ \E hasTiers \in BOOLEAN : PushUnit(hasTiers)

\* The entries in depth-first order: the entry, its child entries each with
\* all that is below it, then the entries of its groups likewise.
RECURSIVE DepthFirst(_)
DepthFirst(n) ==
    LET below(ns) == Concat([k \in DOMAIN ns |-> DepthFirst(ns[k])])
    IN  <<n>> \o below(childEntries(n)) \o below(Concat(groupEntries(n)))
\* The 'Unit' profiles in that order.
UnitProfilesInOrder ==
    LET ofNode(n) ==
            SelectSeq([i \in DOMAIN sProfiles[n] |->
                          IF sProfiles[n][i] = "Unit" THEN <<n, i>> ELSE <<>>],
                      LAMBDA x : x # <<>>)
        order == DepthFirst(StatsRoot)
    IN  Concat([k \in DOMAIN order |-> ofNode(order[k])])

\* C19: extractStats returns the first 'Unit' profile in depth-first order
\* and null when there is none, and an entry it returns null for is not
\* pushed.
StatsAreFirstUnitProfile ==
    sPc \in {"extracted", "done"} =>
        /\ sStats = IF UnitProfilesInOrder = <<>> THEN <<>>
                    ELSE Head(UnitProfilesInOrder)
        /\ sStats = <<>> => sUnits = <<>>

\* No profile on the entry or on its first child, and 'Unit' profiles below
\* the first child, on the second child and in the entry's group: the one
\* below the first child is returned, and the entry is pushed.
StatsWitness ==
    /\ sPc = "done"
    /\ sProfiles[1] = <<"Abilities">>
    /\ sProfiles[2] = <<>>
    /\ sProfiles[6] = <<>>
    /\ sProfiles[7] = <<"Unit">>
    /\ sProfiles[3] = <<"Unit">>
    /\ sProfiles[4] = <<"Unit">>
    /\ sStats = <<7, 1>>
    /\ sUnits # <<>>

(***************************************************************************)
(* getUnitPoints (ListEditorPage)                                          *)
(***************************************************************************)
\* Most tiers of a unit.
MaxTiers == 3
TierModelCounts == {1, 5, 10}
TierPoints == {90, 180}
ModelCounts == {0, 1, 4, 5, 7, 10, 11}

\* The tiers of a unit as the query returns them: in any order, no two with
\* the same model_count (unique(unit_id, model_count)).
TierLists ==
    {ts \in SeqsUpTo([model_count : TierModelCounts, points : TierPoints], MaxTiers) :
        \A i, j \in DOMAIN ts : ts[i].model_count = ts[j].model_count => i = j}

\* [...tiers].sort((a, b) => a.model_count - b.model_count): a stable sort.
RECURSIVE sortByModelCount(_)
sortByModelCount(ts) ==
    IF ts = <<>> THEN <<>>
    ELSE LET rest == sortByModelCount(Tail(ts))
             before == SelectSeq(rest, LAMBDA t : t.model_count < Head(ts).model_count)
             after == SelectSeq(rest, LAMBDA t : t.model_count >= Head(ts).model_count)
         IN  before \o <<Head(ts)>> \o after

\* The loop of getUnitPoints over the tiers in the order given.
RECURSIVE lastTierReached(_, _, _)
lastTierReached(ts, modelCount, pts) ==
    IF ts = <<>> THEN pts
    ELSE lastTierReached(Tail(ts), modelCount,
                         IF modelCount >= Head(ts).model_count
                         THEN Head(ts).points ELSE pts)

\* A plausible slip: the tiers are taken in the order received.
getUnitPointsUnsorted(ts, modelCount) == lastTierReached(ts, modelCount, 0)

getUnitPoints(ts, modelCount) ==
    lastTierReached(sortByModelCount(ts), modelCount, 0)

PointsIdle ==
    /\ tPc = "idle"
    /\ tTiers = <<>>
    /\ tModelCount = 0
    /\ tPts = 0

PointsInput ==
    /\ tPc = "ready"
    /\ tTiers \in TierLists
    /\ tModelCount \in ModelCounts
    /\ tPts = 0

GetUnitPoints ==
    /\ tPc = "ready"
    /\ tPts' = getUnitPoints(tTiers, tModelCount)
    /\ tPc' = "done"
    /\ UNCHANGED <<tTiers, tModelCount, notPointsVars>>

PointsNext == GetUnitPoints

\* C20: getUnitPoints returns the points of the tier with the highest
\* model_count not above the model count given, and 0 when every tier is
\* above it; tiers (5, 90) and (10, 180) give 90 for 7 and 180 for 10.
PointsOfHighestTierReached ==
    tPc = "done" =>
        LET reached == {i \in DOMAIN tTiers : tTiers[i].model_count <= tModelCount}
        IN  /\ reached = {} => tPts = 0
            /\ \A i \in reached :
                  (\A j \in reached : tTiers[j].model_count <= tTiers[i].model_count)
                      => tPts = tTiers[i].points
            /\ Range(tTiers) = {[model_count |-> 5, points |-> 90],
                                [model_count |-> 10, points |-> 180]}
                  => /\ tModelCount = 7 => tPts = 90
                     /\ tModelCount = 10 => tPts = 180

\* The tiers (10, 180), (5, 90) received in that order, and 10 models.
PointsWitness ==
    /\ tPc = "done"
    /\ tTiers = <<[model_count |-> 10, points |-> 180],
                  [model_count |-> 5, points |-> 90]>>
    /\ tModelCount = 10
    /\ tPts = 180

(***************************************************************************)
(* extractAbilities                                                        *)
(***************************************************************************)
\* Ability names are sequences of symbols, as the names of the enhancement
\* groups are; lowerSymbol gives the lower-case form of a symbol.
lowerSymbol(c) ==
    CASE c = "Oath of Moment" -> "oath of moment"
      [] c = "OATH OF MOMENT" -> "oath of moment"
      [] c = "Templar Vows" -> "templar vows"
      [] c = "Leader" -> "leader"
      [] c = "Invulnerable" -> "invulnerable"
      [] c = "4+ Invuln" -> "4+ invuln"
      [] c = "Waaagh!" -> "waaagh!"
      [] c = "Aura" -> "aura"
      [] OTHER -> c
nameToLowerCase(name) == [i \in DOMAIN name |-> lowerSymbol(name[i])]

\* The lists of the classification and of the infoLink test.
CoreAbilities ==
    {"deep strike", "deadly demise", "feel no pain", "firing deck", "leader",
     "lone operative", "scouts", "stealth", "infiltrators",
     "objective secured"}
FactionAbilities ==
    {"oath of moment", "waaagh!", "power of the machine spirit",
     "power from pain", "strands of fate", "voice of the hive mind",
     "harbingers of dread", "shadow in the warp"}
LinkAbilities == {"oath of moment", "templar vows"}

\* nameLower.includes('invulnerable') || nameLower.match(/\d\+\s*invuln/):
\* "4+ invuln" is the symbol for a digit, a plus sign and "invuln".
matchesInvulnerable(nameLower) ==
    \/ includes(nameLower, <<"invulnerable">>)
    \/ includes(nameLower, <<"4+ invuln">>)
someIncluded(list, nameLower) ==
    \E f \in list : includes(nameLower, <<lowerSymbol(f)>>)

\* A plausible slip: the core list is tried before the invulnerable pattern.
abilityTypeCoreFirst(name) ==
    LET nameLower == nameToLowerCase(name)
    IN  IF someIncluded(CoreAbilities, nameLower) THEN "core"
        ELSE IF matchesInvulnerable(nameLower) THEN "invulnerable"
        ELSE IF someIncluded(FactionAbilities, nameLower) THEN "faction"
        ELSE "unique"

abilityType(name) ==
    LET nameLower == nameToLowerCase(name)
    IN  IF matchesInvulnerable(nameLower) THEN "invulnerable"
        ELSE IF someIncluded(CoreAbilities, nameLower) THEN "core"
        ELSE IF someIncluded(FactionAbilities, nameLower) THEN "faction"
        ELSE "unique"

\* A plausible slip: the names are compared as they are written.
alreadyPresentExact(abilities, name) ==
    \E i \in DOMAIN abilities : abilities[i].name = name

\* abilities.some(a => a.name.toLowerCase() === nameLower)
alreadyPresent(abilities, name) ==
    \E i \in DOMAIN abilities :
        nameToLowerCase(abilities[i].name) = nameToLowerCase(name)

\* The loop over the profiles, then the loop over the infoLinks. A link
\* without '@_name' has the name <<>>.
RECURSIVE abilitiesOfProfiles(_)
abilitiesOfProfiles(ps) ==
    IF ps = <<>> THEN <<>>
    ELSE LET profile == Head(ps)
         IN  (IF profile.typeName = "Abilities"
              THEN <<[name |-> profile.name, type |-> abilityType(profile.name),
                      description |-> profile.description]>>
              ELSE <<>>)
             \o abilitiesOfProfiles(Tail(ps))

RECURSIVE abilitiesWithLinks(_, _)
abilitiesWithLinks(abilities, links) ==
    IF links = <<>> THEN abilities
    ELSE LET link == Head(links)
             name == link.name
             push ==
                /\ link.type = "rule"
                /\ name # <<>>
                /\ someIncluded(LinkAbilities, nameToLowerCase(name))
                /\ ~alreadyPresent(abilities, name)
         IN  abilitiesWithLinks(
                IF push
                THEN Append(abilities, [name |-> name, type |-> "faction",
                                        description |-> ""])
                ELSE abilities,
                Tail(links))

extractAbilities(ps, links) ==
    abilitiesWithLinks(abilitiesOfProfiles(ps), links)

\* Most profiles and most infoLinks of the entry.
MaxAbilityProfiles == 1
MaxInfoLinks == 2

AbilityNames ==
    {<<"Invulnerable">>, <<"4+ Invuln">>, <<"Leader">>, <<"Oath of Moment">>,
     <<"OATH OF MOMENT">>, <<"Waaagh!">>, <<"Aura">>, <<"Templar Vows">>,
     <<"Leader", "Invulnerable">>, <<"Oath of Moment", "Leader">>,
     <<"Waaagh!", "4+ Invuln">>, <<"Aura", "Oath of Moment">>}
ProfileChoices ==
    {[typeName |-> "Abilities", name |-> n, description |-> "text"] :
        n \in AbilityNames}
    \cup {[typeName |-> "Abilities", name |-> <<"Oath of Moment">>,
           description |-> ""],
          [typeName |-> "Unit", name |-> <<"Leader">>, description |-> ""]}
InfoLinkChoices ==
    {[type |-> "rule", name |-> n] :
        n \in {<<>>, <<"Oath of Moment">>, <<"OATH OF MOMENT">>,
               <<"Templar Vows">>, <<"Aura", "Oath of Moment">>,
               <<"Leader">>}}
    \cup {[type |-> "profile", name |-> <<"Oath of Moment">>]}

AbilityIdle ==
    /\ aPc = "idle"
    /\ aProfiles = <<>>
    /\ aInfoLinks = <<>>
    /\ aOut = <<>>

AbilityInput ==
    /\ aPc = "ready"
    /\ aProfiles \in SeqsUpTo(ProfileChoices, MaxAbilityProfiles)
    /\ aInfoLinks \in SeqsUpTo(InfoLinkChoices, MaxInfoLinks)
    /\ aOut = <<>>

ExtractAbilities ==
    /\ aPc = "ready"
    /\ aOut' = extractAbilities(aProfiles, aInfoLinks)
    /\ aPc' = "done"
    /\ UNCHANGED <<aProfiles, aInfoLinks, notAbilityVars>>

AbilityNext == ExtractAbilities

\* The abilities that come from profiles are the first ones of the list.
AbilityProfiles == SelectSeq(aProfiles, LAMBDA p : p.typeName = "Abilities")
LinkDerived == (Len(AbilityProfiles) + 1)..Len(aOut)

\* C21: an ability contributed by a 'rule' infoLink is in the list only if
\* its name matches the allow-list and no earlier ability of the list has
\* the same name, compared case-insensitively.
LinkAbilityOnlyIfNew ==
    aPc = "done" =>
        \A i \in LinkDerived :
            /\ someIncluded(LinkAbilities, nameToLowerCase(aOut[i].name))
            /\ \E k \in DOMAIN aInfoLinks :
                  /\ aInfoLinks[k].type = "rule"
                  /\ aInfoLinks[k].name = aOut[i].name
            /\ \A j \in 1..(i - 1) :
                  nameToLowerCase(aOut[j].name) # nameToLowerCase(aOut[i].name)

\* A link repeats the name of a profile's ability in another case and is
\* left out, and a link with a new name is added.
LinkAbilityWitness ==
    /\ aPc = "done"
    /\ aProfiles = <<[typeName |-> "Abilities", name |-> <<"Oath of Moment">>,
                      description |-> "text"]>>
    /\ aInfoLinks = <<[type |-> "rule", name |-> <<"OATH OF MOMENT">>],
                      [type |-> "rule", name |-> <<"Templar Vows">>]>>
    /\ Len(aOut) = 2
    /\ aOut[2].name = <<"Templar Vows">>

\* The type the priority order gives a name.
ByPriority(name) ==
    LET lower == nameToLowerCase(name)
        inv == \E i \in DOMAIN lower : lower[i] \in {"invulnerable", "4+ invuln"}
        core == \E i \in DOMAIN lower : lower[i] \in CoreAbilities
        faction == \E i \in DOMAIN lower : lower[i] \in FactionAbilities
    IN  CASE inv -> "invulnerable"
          [] ~inv /\ core -> "core"
          [] ~inv /\ ~core /\ faction -> "faction"
          [] OTHER -> "unique"

\* C23: every ability profile gets the type of the first list its lower-case
\* name matches: invulnerable, then core, then faction, else unique.
AbilityTypeByPriority ==
    aPc = "done" =>
        /\ Len(aOut) >= Len(AbilityProfiles)
        /\ \A i \in DOMAIN AbilityProfiles :
              /\ aOut[i].name = AbilityProfiles[i].name
              /\ aOut[i].type = ByPriority(AbilityProfiles[i].name)

\* A name that matches the core list and the invulnerable pattern.
AbilityTypeWitness ==
    /\ aPc = "done"
    /\ aProfiles = <<[typeName |-> "Abilities",
                      name |-> <<"Leader", "Invulnerable">>,
                      description |-> "text"]>>
    /\ aOut[1].type = "invulnerable"

(***************************************************************************)
(* extractPointsTiers over an entry's costs, constraints and modifiers     *)
(***************************************************************************)
\* Most 'min selections' constraints on the groups of one entry.
MaxMinConstraints == 2

\* The id of the pts field, and the conditions a modifier can carry.
PtsField == "51b2-306e-1021-d207"
ConditionLists ==
    {<<>>,
     <<[type |-> "atLeast", field |-> "selections", value |-> 5]>>,
     <<[type |-> "atLeast", field |-> "selections", value |-> 0]>>,
     <<[type |-> "atMost", field |-> "selections", value |-> 5]>>,
     <<[type |-> "atLeast", field |-> "forces", value |-> 5]>>,
     <<[type |-> "atLeast", field |-> "selections", value |-> 5],
       [type |-> "atLeast", field |-> "selections", value |-> 10]>>,
     <<[type |-> "atMost", field |-> "selections", value |-> 5],
       [type |-> "atLeast", field |-> "selections", value |-> 10]>>}
RawModifiers ==
    [field : {PtsField, "hidden"}, value : ModifierValues,
     conditions : ConditionLists]

RECURSIVE conditionsOf(_, _)
conditionsOf(mod, conds) ==
    IF conds = <<>> THEN <<>>
    ELSE (IF Head(conds).type = "atLeast" /\ Head(conds).field = "selections"
          THEN <<[value |-> mod.value, atLeast |-> Head(conds).value]>>
          ELSE <<>>)
         \o conditionsOf(mod, Tail(conds))

\* A plausible slip: the modifier's field is not looked at.
RECURSIVE ptsModifiersAnyField(_)
ptsModifiersAnyField(mods) ==
    IF mods = <<>> THEN <<>>
    ELSE conditionsOf(Head(mods), Head(mods).conditions)
         \o ptsModifiersAnyField(Tail(mods))

\* The loops over node.modifiers.modifier and over each modifier's
\* conditions: the pairs of a pts modifier's value and the value of one of
\* its 'atLeast selections' conditions, in document order.
RECURSIVE ptsModifiers(_)
ptsModifiers(mods) ==
    IF mods = <<>> THEN <<>>
    ELSE (IF Head(mods).field = PtsField
          THEN conditionsOf(Head(mods), Head(mods).conditions)
          ELSE <<>>)
         \o ptsModifiers(Tail(mods))

TierIdle ==
    /\ ptPc = "idle"
    /\ ptNode = <<>>
    /\ ptTiers = <<>>

TierInput ==
    /\ ptPc = "ready"
    /\ ptNode \in [pts : PtsValues,
                   minSelections : SeqsUpTo(MinSelectionsValues,
                                            MaxMinConstraints),
                   modifiers : SeqsUpTo(RawModifiers, MaxModifiers)]
    /\ ptTiers = <<>>

ExtractPointsTiers ==
    /\ ptPc = "ready"
    /\ ptTiers' =
          extractPointsTiers([pts |-> ptNode.pts,
                              minSelections |-> ptNode.minSelections,
                              modifiers |-> ptsModifiers(ptNode.modifiers)])
    /\ ptPc' = "done"
    /\ UNCHANGED <<ptNode, notTierVars>>

TierNext == ExtractPointsTiers

\* The tiers of the modifiers: one for each 'atLeast selections' condition
\* of a pts modifier with a positive threshold and positive points.
QualifyingConditions ==
    {<<i, j>> \in (DOMAIN ptNode.modifiers) \X (1..2) :
        /\ j \in DOMAIN ptNode.modifiers[i].conditions
        /\ ptNode.modifiers[i].field = PtsField
        /\ ptNode.modifiers[i].value > 0
        /\ ptNode.modifiers[i].conditions[j].type = "atLeast"
        /\ ptNode.modifiers[i].conditions[j].field = "selections"
        /\ ptNode.modifiers[i].conditions[j].value > 0}
TierOfCondition(q) ==
    [model_count |-> ptNode.modifiers[q[1]].conditions[q[2]].value,
     points |-> ptNode.modifiers[q[1]].value]
LastMinSelections == ptNode.minSelections[Len(ptNode.minSelections)]

\* The returned tiers are a base tier with the model count m when there is
\* one, and one tier per qualifying condition, and nothing else.
TiersAre(m) ==
    LET hasBase == ptNode.pts > 0
        nBase == IF hasBase THEN 1 ELSE 0
    IN  /\ Len(ptTiers) = nBase + Cardinality(QualifyingConditions)
        /\ hasBase => ptTiers[1] = [model_count |-> m, points |-> ptNode.pts]
        /\ \A q \in QualifyingConditions :
              \E k \in (nBase + 1)..Len(ptTiers) : ptTiers[k] = TierOfCondition(q)
        /\ \A k \in (nBase + 1)..Len(ptTiers) :
              \E q \in QualifyingConditions : ptTiers[k] = TierOfCondition(q)

\* C24 as stated: the base tier's model count is the value of the
\* min-selections constraint, or 1 when there is no such constraint.
TiersWithConstraintValue ==
    ptPc = "done" =>
        TiersAre(IF ptNode.minSelections = <<>> THEN 1 ELSE LastMinSelections)

\* C24: the base tier's model count is the value of the last min-selections
\* constraint of the entry's groups, or 1 when there is none or its value
\* is 0 or not a number; the other tiers are those of the qualifying
\* conditions, and there is nothing else.
TiersWithConstraintValueOrOne ==
    ptPc = "done" =>
        TiersAre(IF ptNode.minSelections = <<>> \/ LastMinSelections = 0
                 THEN 1 ELSE LastMinSelections)

\* A base tier of five models and two tiers from one modifier's conditions.
TiersWitness ==
    /\ ptPc = "done"
    /\ ptNode.pts = 90
    /\ ptNode.minSelections = <<0, 5>>
    /\ Len(ptNode.modifiers) = 1
    /\ ptTiers = <<[model_count |-> 5, points |-> 90],
                   [model_count |-> 5, points |-> 180],
                   [model_count |-> 10, points |-> 180]>>

(***************************************************************************)
(* buildEntryIndex                                                         *)
(***************************************************************************)
\* Number of different '@_id' values among the entries of the document.
NEntryIds == 2
EntryIds == 1..NEntryIds

\* The document: node 1 is the catalogue; 2 is a selectionEntry of it, 3 a
\* selectionEntryGroup of 2, 4 a selectionEntry of 3; 5 is a
\* selectionEntryGroup of the catalogue; 6 is in sharedSelectionEntries,
\* 7 in sharedSelectionEntryGroups, and 8 is a selectionEntry of 7.
IndexRoot == 1
IndexNodes == 1..8
sharedEntriesOf(n) == IF n = 1 THEN <<6>> ELSE <<>>
sharedGroupsOf(n) == IF n = 1 THEN <<7>> ELSE <<>>
entriesOf(n) ==
    CASE n = 1 -> <<2>>
      [] n = 3 -> <<4>>
      [] n = 7 -> <<8>>
      [] OTHER -> <<>>
groupsOf(n) ==
    CASE n = 1 -> <<5>>
      [] n = 2 -> <<3>>
      [] OTHER -> <<>>

\* What a node carries: '@_id' (0: none) and whether it has an '@_name'.
\* Ids are drawn so that two nodes can carry the same one; the catalogue
\* has the id 1 and a name.
NodeIdents ==
    [id : {0} \cup EntryIds, named : {TRUE}] \cup {[id |-> 1, named |-> FALSE]}

\* The map: id -> node, 0 where the map has no entry for the id.
EmptyIndex == [i \in EntryIds |-> 0]

\* A plausible slip: an id already in the map is left as it is.
indexSetIfAbsent(index, id, n) ==
    IF index[id] = 0 THEN [index EXCEPT ![id] = n] ELSE index

\* index.set(node['@_id'], node)
indexSet(index, id, n) == [index EXCEPT ![id] = n]

\* walk: the node itself, then the children under the keys in the order
\* the function reads them.  The wrappers sharedSelectionEntries and
\* sharedSelectionEntryGroups are walked as nodes without id; their
\* children are the entries and groups they hold.
RECURSIVE walk(_, _)
RECURSIVE walkEach(_, _)
walk(n, index) ==
    LET own == IF iIdent[n].id # 0 /\ iIdent[n].named
               THEN indexSet(index, iIdent[n].id, n)
               ELSE index
    IN  walkEach(sharedEntriesOf(n) \o sharedGroupsOf(n) \o entriesOf(n)
                    \o groupsOf(n),
                 own)
walkEach(ns, index) ==
    IF ns = <<>> THEN index
    ELSE walkEach(Tail(ns), walk(Head(ns), index))

buildEntryIndex == walk(IndexRoot, EmptyIndex)

IndexIdle ==
    /\ iPc = "idle"
    /\ iIdent = <<>>
    /\ iIndex = <<>>

IndexInput ==
    /\ iPc = "ready"
    /\ iIdent \in [IndexNodes -> NodeIdents]
    /\ iIdent[IndexRoot] = [id |-> 1, named |-> TRUE]
    /\ iIndex = <<>>

BuildEntryIndex ==
    /\ iPc = "ready"
    /\ iIndex' = buildEntryIndex
    /\ iPc' = "done"
    /\ UNCHANGED <<iIdent, notIndexVars>>

IndexNext == BuildEntryIndex

\* The nodes in the order walk visits them.
VisitOrder == <<1, 6, 7, 8, 2, 3, 4, 5>>
VisitedAt(n) == CHOOSE k \in DOMAIN VisitOrder : VisitOrder[k] = n
LastOf(S) == CHOOSE n \in S : \A o \in S : VisitedAt(o) <= VisitedAt(n)

ListDetachment == "D1"
EnhancementsTable ==
    <<[id |-> "e1", detachment_id |-> "D1", name |-> "Artificer Armour",
       points |-> 10],
      [id |-> "e2", detachment_id |-> "D2", name |-> "Iron Resolve",
       points |-> 20],
      [id |-> "e3", detachment_id |-> "D1", name |-> "Adept of the Codex",
       points |-> 30]>>
UnitsTable ==
    <<[id |-> "u1", name |-> "Captain", role |-> "character",
       is_unique |-> TRUE,
       unit_points_tiers |-> <<[model_count |-> 1, points |-> 90]>>],
      [id |-> "u2", name |-> "Intercessors", role |-> "battleline",
       is_unique |-> FALSE,
       unit_points_tiers |-> <<[model_count |-> 10, points |-> 180],
                               [model_count |-> 5, points |-> 90]>>]>>
UnitIds == {UnitsTable[i].id : i \in DOMAIN UnitsTable}
EnhancementIds == {EnhancementsTable[i].id : i \in DOMAIN EnhancementsTable}
unitOf(id) == CHOOSE u \in Range(UnitsTable) : u.id = id
enhancementOf(id) == CHOOSE e \in Range(EnhancementsTable) : e.id = id

\* Most rows of army_list_units and of army_list_enhancements of the list
\* in the stored lists the points are computed for.
MaxListUnits == 2
MaxListEnhancements == 1
ListModelCounts == {1, 4, 5, 10}

RECURSIVE SumOver(_, _)
SumOver(F(_), s) == IF s = <<>> THEN 0 ELSE F(Head(s)) + SumOver(F, Tail(s))

\* fetchList: the enhancements of the list's detachment, ordered by points.
enhancements ==
    SelectSeq(EnhancementsTable, LAMBDA e : e.detachment_id = ListDetachment)

\* enhancementPoints and totalPoints of the page, over its state.
enhancementPoints ==
    LET one(le) ==
            IF \E i \in DOMAIN enhancements : enhancements[i].id = le.enhancement_id
            THEN enhancementOf(le.enhancement_id).points
            ELSE 0
    IN  SumOver(one, listEnhancements)
totalPoints ==
    LET one(lu) == getUnitPoints(unitOf(lu.unit_id).unit_points_tiers,
                                 lu.model_count)
    IN  SumOver(one, listUnits) + enhancementPoints

\* calculate_list_points over the stored rows of the list.
calculate_list_points ==
    LET tier_points(alu) ==
            LET joined == {t \in Range(unitOf(alu.unit_id).unit_points_tiers) :
                              t.model_count <= alu.model_count}
            IN  IF joined = {} THEN 0
                ELSE (CHOOSE t \in joined :
                         \A o \in joined : o.model_count <= t.model_count).points
        e_points(ale) == enhancementOf(ale.enhancement_id).points
        v_unit_points == SumOver(tier_points, dbUnits)
        v_enhancement_points == SumOver(e_points, dbEnhancements)
    IN  [total_points |-> v_unit_points + v_enhancement_points,
         unit_points |-> v_unit_points,
         enhancement_points |-> v_enhancement_points]

NoValidation == [total_points |-> -1, unit_points |-> -1,
                 enhancement_points |-> -1]

EditorIdle ==
    /\ lPc = "idle"
    /\ dbUnits = <<>>
    /\ dbEnhancements = <<>>
    /\ nextId = 0
    /\ listUnits = <<>>
    /\ listEnhancements = <<>>
    /\ serverValidation = NoValidation
    /\ calls = <<>>
    /\ importResult = <<>>

\* The stored lists: rows with the ids 1, 2, .. in sort order, and
\* enhancement rows on units of the list.
StoredUnits ==
    SeqsUpTo([unit_id : UnitIds, model_count : ListModelCounts], MaxListUnits)
StoredRows(us) ==
    [i \in DOMAIN us |->
        [id |-> i, unit_id |-> us[i].unit_id, model_count |-> us[i].model_count,
         sort_order |-> i - 1]]
StoredEnhancements(us) ==
    SeqsUpTo([enhancement_id : EnhancementIds, army_list_unit_id : DOMAIN us],
             MaxListEnhancements)
EnhancementRows(es, firstId) ==
    [i \in DOMAIN es |->
        [id |-> firstId + i, enhancement_id |-> es[i].enhancement_id,
         army_list_unit_id |-> es[i].army_list_unit_id]]

TotalsInput ==
    /\ lPc = "start"
    /\ \E us \in StoredUnits :
          /\ dbUnits = StoredRows(us)
          /\ \E es \in StoredEnhancements(us) :
                /\ dbEnhancements = EnhancementRows(es, Len(us))
                /\ nextId = Len(us) + Len(es) + 1
    /\ listUnits = <<>>
    /\ listEnhancements = <<>>
    /\ serverValidation = NoValidation
    /\ calls = <<>>
    /\ importResult = <<>>

\* fetchList: the page's state is set from the stored rows.
FetchList ==
    /\ lPc = "start"
    /\ listUnits' = dbUnits
    /\ listEnhancements' = dbEnhancements
    /\ lPc' = "loaded"
    /\ UNCHANGED <<dbUnits, dbEnhancements, nextId, serverValidation, calls,
                   importResult, notEditorVars>>

\* fetchServerValidation, called at the end of fetchList.
FetchServerValidation ==
    /\ lPc = "loaded"
    /\ serverValidation' = calculate_list_points
    /\ lPc' = "validated"
    /\ UNCHANGED <<dbUnits, dbEnhancements, nextId, listUnits, listEnhancements,
                   calls, importResult, notEditorVars>>

TotalsNext == FetchList \/ FetchServerValidation

pointsMismatch ==
    serverValidation # NoValidation /\ serverValidation.total_points # totalPoints

\* C25: the total the page computes equals total_points of
\* calculate_list_points, for every stored list.
ClientTotalEqualsServerTotal == lPc = "validated" => ~pointsMismatch

(***************************************************************************)
(* The list editor: addUnit and assignEnhancement                          *)
(***************************************************************************)
\* Most calls of a handler made on the page.
MaxCalls == 2

\* uniqueUnitIdsInList and unitEnhancementMap, computed from the page's
\* state; the map holds the last row of a unit (0: no entry).
uniqueUnitIdsInList ==
    {listUnits[i].unit_id : i \in {j \in DOMAIN listUnits :
                                      unitOf(listUnits[j].unit_id).is_unique}}
unitEnhancementMap(armyListUnitId) ==
    LET rows == {i \in DOMAIN listEnhancements :
                    listEnhancements[i].army_list_unit_id = armyListUnitId}
    IN  IF rows = {} THEN 0
        ELSE listEnhancements[CHOOSE i \in rows : \A j \in rows : j <= i].id

\* Math.min over the tiers' model counts, 1 without tiers.
minModels(unit) ==
    IF unit.unit_points_tiers = <<>> THEN 1
    ELSE Min({unit.unit_points_tiers[i].model_count :
                 i \in DOMAIN unit.unit_points_tiers})

\* The outcomes of select ... order('sort_order'): the rows in an order in
\* which sort_order does not decrease; rows of equal sort_order come in any
\* order.
OrderedBySortOrder(rows) ==
    {[i \in DOMAIN rows |-> rows[p[i]]] :
        p \in {q \in [DOMAIN rows -> DOMAIN rows] :
                  /\ \A i, j \in DOMAIN rows : i # j => q[i] # q[j]
                  /\ \A i, j \in DOMAIN rows :
                        i < j => rows[q[i]].sort_order <= rows[q[j]].sort_order}}

\* The stored lists the page is opened on: the units as addUnit stores
\* them, no unique unit twice, and at most one enhancement row.
OpenedUnits ==
    {us \in SeqsUpTo(UnitIds, MaxListUnits) :
        \A i, j \in DOMAIN us :
            (i # j /\ unitOf(us[i]).is_unique) => us[i] # us[j]}
OpenedRows(us) ==
    [i \in DOMAIN us |->
        [id |-> i, unit_id |-> us[i], model_count |-> minModels(unitOf(us[i])),
         sort_order |-> i - 1]]

EditingInput ==
    /\ lPc = "editing"
    /\ \E us \in OpenedUnits :
          /\ dbUnits = OpenedRows(us)
          /\ \E es \in StoredEnhancements(us) :
                /\ dbEnhancements = EnhancementRows(es, Len(us))
                /\ nextId = Len(us) + Len(es) + 1
    /\ listUnits = dbUnits
    /\ listEnhancements = dbEnhancements
    /\ serverValidation = NoValidation
    /\ calls = <<>>
    /\ importResult = <<>>

\* addUnit up to its first await: the test of uniqueUnitIdsInList and the
\* row to insert, both from the page's state at the time of the call.
AddUnit(unit) ==
    /\ lPc = "editing"
    /\ Len(calls) < MaxCalls
    /\ ~(unit.is_unique /\ unit.id \in uniqueUnitIdsInList)
    /\ calls' = Append(calls,
                       [op |-> "addUnit", pc |-> "insert",
                        row |-> [unit_id |-> unit.id,
                                 model_count |-> minModels(unit),
                                 sort_order |-> Len(listUnits)]])
    /\ UNCHANGED <<lPc, dbUnits, dbEnhancements, nextId, listUnits,
                   listEnhancements, serverValidation, importResult,
                   notEditorVars>>

\* The insert of an addUnit call reaches the database.
InsertUnit(k) ==
    /\ calls[k].op = "addUnit" /\ calls[k].pc = "insert"
    /\ dbUnits' = Append(dbUnits,
                         [id |-> nextId, unit_id |-> calls[k].row.unit_id,
                          model_count |-> calls[k].row.model_count,
                          sort_order |-> calls[k].row.sort_order])
    /\ nextId' = nextId + 1
    /\ calls' = [calls EXCEPT ![k].pc = "fetch"]
    /\ UNCHANGED <<lPc, dbEnhancements, listUnits, listEnhancements,
                   serverValidation, importResult, notEditorVars>>

\* The fetchList a handler ends with sets the page's state.
Refetch(k) ==
    /\ calls[k].pc = "fetch"
    /\ listUnits' \in OrderedBySortOrder(dbUnits)
    /\ listEnhancements' = dbEnhancements
    /\ calls' = [calls EXCEPT ![k].pc = "done"]
    /\ UNCHANGED <<lPc, dbUnits, dbEnhancements, nextId, serverValidation,
                   importResult, notEditorVars>>

AddUnitNext ==
    \/ \E i \in DOMAIN UnitsTable : AddUnit(UnitsTable[i])
    \/ \E k \in DOMAIN calls : InsertUnit(k)
    \/ \E k \in DOMAIN calls : Refetch(k)

\* C26: the list holds at most one row of army_list_units for a unit whose
\* is_unique flag is true.
UniqueUnitAtMostOnce ==
    \A i, j \in DOMAIN dbUnits :
        (unitOf(dbUnits[i].unit_id).is_unique
            /\ dbUnits[i].unit_id = dbUnits[j].unit_id) => i = j

\* assignEnhancement up to its first await: `existing` is read from the
\* page's state at the time of the call.  enhancementId "" stands for the
\* empty choice.
AssignEnhancement(armyListUnitId, enhancementId) ==
    /\ lPc = "editing"
    /\ Len(calls) < MaxCalls
    /\ LET existing == unitEnhancementMap(armyListUnitId)
       IN  calls' = Append(calls,
                           [op |-> "assignEnhancement",
                            pc |-> IF existing # 0 THEN "delete"
                                   ELSE IF enhancementId # "" THEN "insert"
                                   ELSE "fetch",
                            unit |-> armyListUnitId,
                            enhancement |-> enhancementId,
                            existing |-> existing])
    /\ UNCHANGED <<lPc, dbUnits, dbEnhancements, nextId, listUnits,
                   listEnhancements, serverValidation, importResult,
                   notEditorVars>>

\* delete().eq('id', existing.listEnhancementId) reaches the database.
DeleteAssigned(k) ==
    /\ calls[k].op = "assignEnhancement" /\ calls[k].pc = "delete"
    /\ dbEnhancements' =
          SelectSeq(dbEnhancements, LAMBDA r : r.id # calls[k].existing)
    /\ calls' = [calls EXCEPT
                    ![k].pc = IF calls[k].enhancement # "" THEN "insert"
                              ELSE "fetch"]
    /\ UNCHANGED <<lPc, dbUnits, nextId, listUnits, listEnhancements,
                   serverValidation, importResult, notEditorVars>>

\* The insert of an assignEnhancement call reaches the database.
InsertAssigned(k) ==
    /\ calls[k].op = "assignEnhancement" /\ calls[k].pc = "insert"
    /\ dbEnhancements' =
          Append(dbEnhancements,
                 [id |-> nextId, enhancement_id |-> calls[k].enhancement,
                  army_list_unit_id |-> calls[k].unit])
    /\ nextId' = nextId + 1
    /\ calls' = [calls EXCEPT ![k].pc = "fetch"]
    /\ UNCHANGED <<lPc, dbUnits, listUnits, listEnhancements,
                   serverValidation, importResult, notEditorVars>>

AssignNext ==
    \/ \E i \in DOMAIN listUnits :
          \E e \in {enhancements[j].id : j \in DOMAIN enhancements} \cup {""} :
              AssignEnhancement(listUnits[i].id, e)
    \/ \E k \in DOMAIN calls : DeleteAssigned(k)
    \/ \E k \in DOMAIN calls : InsertAssigned(k)
    \/ \E k \in DOMAIN calls : Refetch(k)

AssignedTo(armyListUnitId) ==
    {i \in DOMAIN dbEnhancements :
        dbEnhancements[i].army_list_unit_id = armyListUnitId}

\* C27: every army_list_unit has at most one row of
\* army_list_enhancements, and once every call has finished the unit of the
\* last call holds the enhancement that call gave (none for the empty
\* choice).
OneEnhancementPerUnit ==
    /\ \A i \in DOMAIN dbUnits : Cardinality(AssignedTo(dbUnits[i].id)) <= 1
    /\ (calls # <<>> /\ \A k \in DOMAIN calls : calls[k].pc = "done") =>
          LET last == calls[Len(calls)]
          IN  {dbEnhancements[i].enhancement_id : i \in AssignedTo(last.unit)}
                 = IF last.enhancement = "" THEN {} ELSE {last.enhancement}

(***************************************************************************)
(* The list editor: handleImport                                           *)
(***************************************************************************)
\* Most units in a parsed import.
MaxParsed == 2

\* toLowerCase of the names of units and enhancements.
lowerName(str) ==
    CASE str \in {"Captain", "CAPTAIN"} -> "captain"
      [] str \in {"Intercessors", "INTERCESSORS"} -> "intercessors"
      [] str \in {"Artificer Armour", "ARTIFICER ARMOUR"} -> "artificer armour"
      [] str = "Iron Resolve" -> "iron resolve"
      [] str = "Adept of the Codex" -> "adept of the codex"
      [] str = "Gretchin" -> "gretchin"
      [] OTHER -> str

\* The units a parsed import can hold; enhancementName "" stands for null.
ParsedChoices ==
    {[name |-> "captain", modelCount |-> 1,
      enhancementName |-> "ARTIFICER ARMOUR"],
     [name |-> "Captain", modelCount |-> 1, enhancementName |-> ""],
     [name |-> "INTERCESSORS", modelCount |-> 5, enhancementName |-> ""],
     [name |-> "Intercessors", modelCount |-> 10,
      enhancementName |-> "Iron Resolve"],
     [name |-> "Gretchin", modelCount |-> 5,
      enhancementName |-> "artificer armour"],
     [name |-> "gretchin", modelCount |-> 1, enhancementName |-> ""]}
ParsedLists == SeqsUpTo(ParsedChoices, MaxParsed)

\* availableUnits: the faction's units, ordered by name.
availableUnits == UnitsTable

\* A plausible slip: the names are compared as they are written.
findUnitExact(name) ==
    SelectSeq(availableUnits, LAMBDA u : u.name = name)

\* availableUnits.find(u => u.name.toLowerCase() === p.name.toLowerCase()):
\* <<>> when there is none, else the first one.
findUnit(name) ==
    SelectSeq(availableUnits, LAMBDA u : lowerName(u.name) = lowerName(name))
findEnhancement(name) ==
    SelectSeq(enhancements, LAMBDA e : lowerName(e.name) = lowerName(name))

\* The loop over parsed: the matched units and the unmatched names.
RECURSIVE matchedOf(_)
matchedOf(ps) ==
    IF ps = <<>> THEN <<>>
    ELSE (IF findUnit(Head(ps).name) # <<>>
          THEN <<[unit |-> findUnit(Head(ps).name)[1],
                  modelCount |-> Head(ps).modelCount,
                  enhancementName |-> Head(ps).enhancementName]>>
          ELSE <<>>)
         \o matchedOf(Tail(ps))
RECURSIVE unmatchedOf(_)
unmatchedOf(ps) ==
    IF ps = <<>> THEN <<>>
    ELSE (IF findUnit(Head(ps).name) # <<>> THEN <<>> ELSE <<Head(ps).name>>)
         \o unmatchedOf(Tail(ps))

\* The stored lists the import is made on: a list as addUnit stores it,
\* without enhancement or with e1 on its first unit.
ImportInput ==
    /\ lPc = "editing"
    /\ \E us \in OpenedUnits :
          /\ dbUnits = OpenedRows(us)
          /\ \E es \in {<<>>} \cup
                       {<<[enhancement_id |-> "e1", army_list_unit_id |-> 1]>> :
                           x \in {1} \cap DOMAIN us} :
                /\ dbEnhancements = EnhancementRows(es, Len(us))
                /\ nextId = Len(us) + Len(es) + 1
    /\ listUnits = dbUnits
    /\ listEnhancements = dbEnhancements
    /\ serverValidation = NoValidation
    /\ calls = <<>>
    /\ importResult = <<>>

\* handleImport up to its first await: the matching, and the return when
\* nothing matched.
HandleImport(parsed) ==
    /\ lPc = "editing"
    /\ calls = <<>>
    /\ LET matched == matchedOf(parsed)
           unmatched == unmatchedOf(parsed)
       IN  IF matched = <<>>
           THEN /\ importResult' = <<[success |-> FALSE, matched |-> 0,
                                      unmatched |-> unmatched]>>
                /\ calls' = <<[op |-> "handleImport", pc |-> "done",
                               parsed |-> parsed, matched |-> matched,
                               unmatched |-> unmatched, i |-> 0,
                               inserted |-> 0]>>
           ELSE /\ importResult' = importResult
                /\ calls' = <<[op |-> "handleImport",
                               pc |-> "deleteEnhancements",
                               parsed |-> parsed, matched |-> matched,
                               unmatched |-> unmatched, i |-> 0,
                               inserted |-> 0]>>
    /\ UNCHANGED <<lPc, dbUnits, dbEnhancements, nextId, listUnits,
                   listEnhancements, serverValidation, notEditorVars>>

\* army_list_enhancements: delete().eq('army_list_id', id)
ImportDeleteEnhancements(k) ==
    /\ calls[k].op = "handleImport" /\ calls[k].pc = "deleteEnhancements"
    /\ dbEnhancements' = <<>>
    /\ calls' = [calls EXCEPT ![k].pc = "deleteUnits"]
    /\ UNCHANGED <<lPc, dbUnits, nextId, listUnits, listEnhancements,
                   serverValidation, importResult, notEditorVars>>

\* army_list_units: delete().eq('army_list_id', id); the rows of
\* army_list_enhancements that reference a deleted unit go with it.
ImportDeleteUnits(k) ==
    /\ calls[k].op = "handleImport" /\ calls[k].pc = "deleteUnits"
    /\ dbUnits' = <<>>
    /\ dbEnhancements' = <<>>
    /\ calls' = [calls EXCEPT ![k].pc = "insertUnit"]
    /\ UNCHANGED <<lPc, nextId, listUnits, listEnhancements, serverValidation,
                   importResult, notEditorVars>>

\* The insert of matched[i] with sort_order i.
ImportInsertUnit(k) ==
    /\ calls[k].op = "handleImport" /\ calls[k].pc = "insertUnit"
    /\ LET m == calls[k].matched[calls[k].i + 1]
       IN  /\ dbUnits' = Append(dbUnits,
                                [id |-> nextId, unit_id |-> m.unit.id,
                                 model_count |-> m.modelCount,
                                 sort_order |-> calls[k].i])
           /\ calls' = [calls EXCEPT ![k].inserted = nextId,
                                     ![k].pc = "insertEnhancement"]
    /\ nextId' = nextId + 1
    /\ UNCHANGED <<lPc, dbEnhancements, listUnits, listEnhancements,
                   serverValidation, importResult, notEditorVars>>

\* The enhancement of matched[i], when it is named and found among the
\* detachment's enhancements; then the next i, or the end of the handler.
ImportInsertEnhancement(k) ==
    /\ calls[k].op = "handleImport" /\ calls[k].pc = "insertEnhancement"
    /\ LET m == calls[k].matched[calls[k].i + 1]
           enh == IF m.enhancementName # ""
                  THEN findEnhancement(m.enhancementName) ELSE <<>>
           last == calls[k].i + 1 = Len(calls[k].matched)
       IN  /\ IF enh # <<>>
              THEN /\ dbEnhancements' =
                         Append(dbEnhancements,
                                [id |-> nextId, enhancement_id |-> enh[1].id,
                                 army_list_unit_id |-> calls[k].inserted])
                   /\ nextId' = nextId + 1
              ELSE UNCHANGED <<dbEnhancements, nextId>>
           /\ calls' = [calls EXCEPT ![k].i = calls[k].i + 1,
                                     ![k].pc = IF last THEN "fetch"
                                               ELSE "insertUnit"]
           /\ importResult' =
                 IF last
                 THEN <<[success |-> TRUE, matched |-> Len(calls[k].matched),
                         unmatched |-> calls[k].unmatched]>>
                 ELSE importResult
    /\ UNCHANGED <<lPc, dbUnits, listUnits, listEnhancements, serverValidation,
                   notEditorVars>>

ImportNext ==
    \/ \E parsed \in ParsedLists : HandleImport(parsed)
    \/ \E k \in DOMAIN calls : ImportDeleteEnhancements(k)
    \/ \E k \in DOMAIN calls : ImportDeleteUnits(k)
    \/ \E k \in DOMAIN calls : ImportInsertUnit(k)
    \/ \E k \in DOMAIN calls : ImportInsertEnhancement(k)
    \/ \E k \in DOMAIN calls : Refetch(k)

\* The parsed units whose name is that of an available unit, whatever the
\* case of the letters.
NamesOfAvailable == {lowerName(availableUnits[i].name) : i \in DOMAIN availableUnits}
MatchedParsed ==
    SelectSeq(calls[1].parsed, LAMBDA p : lowerName(p.name) \in NamesOfAvailable)

\* C28: when no parsed name matches an available unit, handleImport returns
\* success = false and the stored units and enhancements are as they were;
\* when one matches, the stored units are the matched units, each with its
\* model count and with sort_order its position among the matched units,
\* and none of the rows stored before is left.
ImportReplacesOnlyOnMatch ==
    importResult # <<>> =>
        IF MatchedParsed = <<>>
        THEN /\ ~importResult[1].success
             /\ dbUnits = listUnits
             /\ dbEnhancements = listEnhancements
        ELSE /\ importResult[1].success
             /\ Len(dbUnits) = Len(MatchedParsed)
             /\ \A i \in DOMAIN dbUnits :
                   /\ lowerName(unitOf(dbUnits[i].unit_id).name)
                         = lowerName(MatchedParsed[i].name)
                   /\ dbUnits[i].model_count = MatchedParsed[i].modelCount
                   /\ dbUnits[i].sort_order = i - 1
             /\ calls[1].pc = "fetch" =>
                   /\ \A i \in DOMAIN dbUnits, j \in DOMAIN listUnits :
                         dbUnits[i].id # listUnits[j].id
                   /\ \A i \in DOMAIN dbEnhancements, j \in DOMAIN listEnhancements :
                         dbEnhancements[i].id # listEnhancements[j].id

\* An import of an unknown name and of a unit written in another case
\* replaces a list of two units by the one matched unit.
ImportWitness ==
    /\ importResult # <<>>
    /\ calls[1].parsed =
          <<[name |-> "gretchin", modelCount |-> 1, enhancementName |-> ""],
            [name |-> "captain", modelCount |-> 1,
             enhancementName |-> "ARTIFICER ARMOUR"]>>
    /\ Len(listUnits) = 2
    /\ Len(dbUnits) = 1
    /\ dbUnits[1].sort_order = 0
    /\ Len(dbEnhancements) = 1

\* An import in which no name matches leaves a list of two units as it was.
ImportNoMatchWitness ==
    /\ importResult # <<>>
    /\ ~importResult[1].success
    /\ Len(calls[1].parsed) = 2
    /\ Len(dbUnits) = 2
    /\ dbEnhancements # <<>>

(***************************************************************************)
(* generateExportText and parseImportText                                  *)
(***************************************************************************)
\* A text is a sequence of lines and a line a sequence of tokens: a piece
\* of literal text, or the decimal digits of a number.  A number below 0 is
\* written with a sign and is no match for \d+.
Tok(str) == [t |-> str, n |-> -1]
Num(n) == [t |-> "digits", n |-> n]
isDigits(tok) == tok.t = "digits" /\ tok.n >= 0
Indent == Tok("  ")

ListName == "Strike Force"
PointsLimit == 2000
DetachmentName == "Gladius Task Force"

roleOrder ==
    <<"epic_hero", "character", "battleline", "infantry", "mounted", "beast",
      "vehicle", "monster", "fortification", "dedicated_transport", "allied">>
roleLabels(role) ==
    CASE role = "epic_hero" -> "Epic Heroes"
      [] role = "character" -> "Characters"
      [] role = "battleline" -> "Battleline"
      [] role = "infantry" -> "Infantry"
      [] role = "mounted" -> "Mounted"
      [] role = "beast" -> "Beasts"
      [] role = "vehicle" -> "Vehicles"
      [] role = "monster" -> "Monsters"
      [] role = "fortification" -> "Fortifications"
      [] role = "dedicated_transport" -> "Dedicated Transports"
      [] role = "allied" -> "Allied Units"
      [] OTHER -> role

\* The lines of one list unit: the unit line, and the enhancement line when
\* the first row of listEnhancements for the unit names an enhancement that
\* is among `enhancements`.
unitLines(lu) ==
    LET pts == getUnitPoints(unitOf(lu.unit_id).unit_points_tiers,
                             lu.model_count)
        rows == {i \in DOMAIN listEnhancements :
                    listEnhancements[i].army_list_unit_id = lu.id}
        enh == IF rows = {} THEN <<>>
               ELSE SelectSeq(enhancements,
                              LAMBDA e : e.id = listEnhancements[Min(rows)].enhancement_id)
    IN  <<<<Indent, Tok(unitOf(lu.unit_id).name)>>
            \o (IF lu.model_count > 1
                THEN <<Tok(" ("), Num(lu.model_count), Tok(" models)")>>
                ELSE <<>>)
            \o <<Tok(" - "), Num(pts), Tok(" pts")>>>>
        \o (IF enh # <<>>
            THEN <<<<Indent, Indent, Tok("Enhancement: "), Tok(enh[1].name),
                     Tok(" (+"), Num(enh[1].points), Tok(" pts)")>>>>
            ELSE <<>>)

\* The section of a role: nothing when the list has no unit of the role.
roleLines(role) ==
    LET ofRole == SelectSeq(listUnits, LAMBDA lu : unitOf(lu.unit_id).role = role)
    IN  IF ofRole = <<>> THEN <<>>
        ELSE <<<<Tok("= "), Tok(roleLabels(role)), Tok(" =")>>>>
             \o FlatMap(unitLines, ofRole)
             \o <<<<>>>>

generateExportText ==
    <<<<Tok("++ "), Tok(ListName), Tok(" ["), Num(totalPoints), Tok("/"),
        Num(PointsLimit), Tok(" pts] ++")>>,
      <<Tok("Detachment: "), Tok(DetachmentName)>>,
      <<>>>>
    \o FlatMap(roleLines, roleOrder)
    \o <<<<Tok("Total: "), Num(totalPoints), Tok(" / "), Num(PointsLimit),
           Tok(" pts")>>>>

\* trim: the tokens without the indentation at either end.
RECURSIVE trim(_)
trim(toks) ==
    IF toks # <<>> /\ Head(toks) = Indent THEN trim(Tail(toks))
    ELSE IF toks # <<>> /\ toks[Len(toks)] = Indent
    THEN trim(SubSeq(toks, 1, Len(toks) - 1))
    ELSE toks
texts(toks) == [i \in DOMAIN toks |-> toks[i].t]

\* /^\s{2}(.+?)(?:\s+\((\d+)\s+models?\))?\s+-\s+\d+\s+pts\s*$/ : <<>> when
\* the line does not match, else the name and the model count it captures.
\* The name is as short as the rest of the pattern allows, so a count in
\* brackets before the points is taken as the count.
unitMatch(line) ==
    IF /\ Len(line) >= 5
       /\ line[1] = Indent
       /\ line[Len(line) - 2] = Tok(" - ")
       /\ isDigits(line[Len(line) - 1])
       /\ line[Len(line)] = Tok(" pts")
    THEN LET body == SubSeq(line, 2, Len(line) - 3)
             n == Len(body)
         IN  IF /\ n >= 4
                /\ body[n - 2] = Tok(" (")
                /\ isDigits(body[n - 1])
                /\ body[n] = Tok(" models)")
             THEN <<[name |-> SubSeq(body, 1, n - 3), count |-> body[n - 1].n]>>
             ELSE <<[name |-> body, count |-> 1]>>
    ELSE <<>>

\* /^\s{4}Enhancement:\s+(.+?)\s+\(\+\d+\s+pts\)\s*$/
enhMatch(line) ==
    IF /\ Len(line) >= 7
       /\ line[1] = Indent /\ line[2] = Indent
       /\ line[3] = Tok("Enhancement: ")
       /\ line[Len(line) - 2] = Tok(" (+")
       /\ isDigits(line[Len(line) - 1])
       /\ line[Len(line)] = Tok(" pts)")
    THEN <<SubSeq(line, 4, Len(line) - 3)>>
    ELSE <<>>

\* The loop of parseImportText from line i on.
RECURSIVE parseFrom(_, _)
parseFrom(lines, i) ==
    IF i > Len(lines) THEN <<>>
    ELSE LET m == unitMatch(lines[i])
             e == IF i + 1 <= Len(lines) THEN enhMatch(lines[i + 1]) ELSE <<>>
         IN  IF m = <<>> THEN parseFrom(lines, i + 1)
             ELSE <<[name |-> texts(trim(m[1].name)),
                     modelCount |-> m[1].count,
                     enhancementName |->
                        IF e # <<>> THEN texts(trim(e[1])) ELSE <<>>]>>
                  \o parseFrom(lines, IF e # <<>> THEN i + 2 ELSE i + 1)
parseImportText(text) == parseFrom(text, 1)

ExportIdle ==
    /\ xPc = "idle"
    /\ exportText = <<>>
    /\ parsedUnits = <<>>

\* The export modal is opened on a page that has loaded a stored list.
ExportInput ==
    /\ xPc = "ready"
    /\ exportText = <<>>
    /\ parsedUnits = <<>>
    /\ lPc = "loaded"
    /\ \E us \in StoredUnits :
          /\ dbUnits = StoredRows(us)
          /\ \E es \in StoredEnhancements(us) :
                /\ dbEnhancements = EnhancementRows(es, Len(us))
                /\ nextId = Len(us) + Len(es) + 1
    /\ listUnits = dbUnits
    /\ listEnhancements = dbEnhancements
    /\ serverValidation = NoValidation
    /\ calls = <<>>
    /\ importResult = <<>>

GenerateExportText ==
    /\ xPc = "ready"
    /\ exportText' = generateExportText
    /\ xPc' = "exported"
    /\ UNCHANGED <<parsedUnits, notExportVars>>

ParseImportText ==
    /\ xPc = "exported"
    /\ parsedUnits' = parseImportText(exportText)
    /\ xPc' = "parsed"
    /\ UNCHANGED <<exportText, notExportVars>>

ExportNext == GenerateExportText \/ ParseImportText

\* What the list holds, role by role in the order of the export: for each
\* unit its name, its model count (1 when the export leaves the count out)
\* and the name of the enhancement assigned to it.
ListedUnit(lu) ==
    LET rows == {i \in DOMAIN listEnhancements :
                    listEnhancements[i].army_list_unit_id = lu.id}
    IN  [name |-> <<unitOf(lu.unit_id).name>>,
         modelCount |-> IF lu.model_count > 1 THEN lu.model_count ELSE 1,
         enhancementName |->
            IF rows = {} THEN <<>>
            ELSE <<enhancementOf(listEnhancements[Min(rows)].enhancement_id).name>>]
ListedInRoleOrder ==
    LET one(lu) == <<ListedUnit(lu)>>
        ofRole(role) ==
            FlatMap(one, SelectSeq(listUnits,
                                   LAMBDA lu : unitOf(lu.unit_id).role = role))
    IN  FlatMap(ofRole, roleOrder)
AllRolesInOrder ==
    \A i \in DOMAIN listUnits :
        unitOf(listUnits[i].unit_id).role \in Range(roleOrder)

\* C29: parsing the exported text of a list whose units all have a role of
\* the role order gives one parsed unit per list unit, in role order, with
\* the unit's name, its model count and its enhancement's name.
ExportImportRoundTrip ==
    (xPc = "parsed" /\ AllRolesInOrder) => parsedUnits = ListedInRoleOrder

(***************************************************************************)
(* The stats of an emitted unit (findUnits, units.push)                    *)
(***************************************************************************)
\* A characteristic of the Unit profile: absent, or its text as a sequence
\* of symbols.
CharacteristicNames == {"M", "T", "SV", "W", "LD", "OC"}
AbsentCharacteristic == [present |-> FALSE, text |-> <<>>]
TextOf(symbols) == [present |-> TRUE, text |-> symbols]
CharacteristicValues ==
    {AbsentCharacteristic, TextOf(<<>>), TextOf(<<"0">>), TextOf(<<"4">>),
     TextOf(<<"6", "+">>), TextOf(<<"-">>)}

DigitSymbols == {"0", "1", "2", "3", "4", "5", "6", "7", "8", "9"}
digitValue(c) ==
    CASE c = "0" -> 0 [] c = "1" -> 1 [] c = "2" -> 2 [] c = "3" -> 3
      [] c = "4" -> 4 [] c = "5" -> 5 [] c = "6" -> 6 [] c = "7" -> 7
      [] c = "8" -> 8 [] c = "9" -> 9

\* The digits the text starts with, read as a decimal number after acc.
RECURSIVE leadingDigits(_, _)
leadingDigits(symbols, acc) ==
    IF symbols = <<>> \/ Head(symbols) \notin DigitSymbols THEN acc
    ELSE leadingDigits(Tail(symbols), acc * 10 + digitValue(Head(symbols)))

\* parseInt of a characteristic: <<>> stands for NaN, <<v>> for the number.
\* An absent characteristic is undefined, which parseInt reads as NaN; a
\* text gives the number its leading sign and digits spell.
parseInt(ch) ==
    LET negative == ch.text # <<>> /\ Head(ch.text) = "-"
        rest == IF negative THEN Tail(ch.text) ELSE ch.text
    IN  IF ~ch.present \/ rest = <<>> \/ Head(rest) \notin DigitSymbols
        THEN <<>>
        ELSE <<(IF negative THEN -1 ELSE 1) * leadingDigits(rest, 0)>>

\* parseInt(x) || d : NaN and 0 are falsy.
orDefault(p, d) == IF p = <<>> \/ p[1] = 0 THEN d ELSE p[1]
\* x || d on a text: undefined and '' are falsy.
textOrDefault(ch, d) == IF ~ch.present \/ ch.text = <<>> THEN d ELSE ch.text

UstatsIdle ==
    /\ uPc = "idle"
    /\ uStats = <<>>
    /\ uUnit = <<>>

UstatsInput ==
    /\ uPc = "ready"
    /\ uStats \in [CharacteristicNames -> CharacteristicValues]
    /\ uUnit = <<>>

\* units.push({...}): the stat fields of the unit record.
PushUnitStats ==
    /\ uPc = "ready"
    /\ uUnit' = <<[movement |-> textOrDefault(uStats["M"], <<"6", "\"">>),
                   toughness |-> orDefault(parseInt(uStats["T"]), 4),
                   save |-> textOrDefault(uStats["SV"], <<"3", "+">>),
                   wounds |-> orDefault(parseInt(uStats["W"]), 1),
                   leadership |-> orDefault(parseInt(uStats["LD"]), 6),
                   objective_control |-> orDefault(parseInt(uStats["OC"]), 1)]>>
    /\ uPc' = "pushed"
    /\ UNCHANGED <<uStats, notUstatsVars>>

UstatsNext == PushUnitStats

StatOrDefault(name, d) ==
    IF parseInt(uStats[name]) = <<>> THEN d ELSE parseInt(uStats[name])[1]

\* C30: each integer stat of an emitted unit is the integer its
\* characteristic parses as, 0 included, and the default 4, 1, 6 or 1 only
\* when the characteristic is absent or no integer.
IntegerStatsFromCharacteristics ==
    uPc = "pushed" =>
        /\ uUnit[1].toughness = StatOrDefault("T", 4)
        /\ uUnit[1].wounds = StatOrDefault("W", 1)
        /\ uUnit[1].leadership = StatOrDefault("LD", 6)
        /\ uUnit[1].objective_control = StatOrDefault("OC", 1)

(***************************************************************************)
(* Specifications                                                          *)
(***************************************************************************)
RoleInit ==
    RoleInput /\ WeaponIdle /\ PipelineIdle /\ WargearIdle /\ MainIdle
    /\ EnhancementIdle /\ StatsIdle /\ PointsIdle /\ AbilityIdle /\ TierIdle
    /\ IndexIdle /\ EditorIdle /\ ExportIdle /\ UstatsIdle
SpecRole == RoleInit /\ [][RoleNext]_vars

WeaponInit ==
    WeaponInput /\ RoleIdle /\ PipelineIdle /\ WargearIdle /\ MainIdle
    /\ EnhancementIdle /\ StatsIdle /\ PointsIdle /\ AbilityIdle /\ TierIdle
    /\ IndexIdle /\ EditorIdle /\ ExportIdle /\ UstatsIdle
SpecWeapons == WeaponInit /\ [][WeaponNext]_vars /\ WF_vars(WeaponNext)

PipelineInit ==
    PipelineInput /\ RoleIdle /\ WeaponIdle /\ WargearIdle /\ MainIdle
    /\ EnhancementIdle /\ StatsIdle /\ PointsIdle /\ AbilityIdle /\ TierIdle
    /\ IndexIdle /\ EditorIdle /\ ExportIdle /\ UstatsIdle
SpecPipeline == PipelineInit /\ [][PipelineNext]_vars

WargearInit ==
    WargearInput /\ RoleIdle /\ WeaponIdle /\ PipelineIdle /\ MainIdle
    /\ EnhancementIdle /\ StatsIdle /\ PointsIdle /\ AbilityIdle /\ TierIdle
    /\ IndexIdle /\ EditorIdle /\ ExportIdle /\ UstatsIdle
SpecWargear == WargearInit /\ [][WargearNext]_vars

MainInit ==
    MainInput /\ RoleIdle /\ WeaponIdle /\ PipelineIdle /\ WargearIdle
    /\ EnhancementIdle /\ StatsIdle /\ PointsIdle /\ AbilityIdle /\ TierIdle
    /\ IndexIdle /\ EditorIdle /\ ExportIdle /\ UstatsIdle
SpecMain == MainInit /\ [][MainNext]_vars

EnhancementInit ==
    EnhancementInput /\ RoleIdle /\ WeaponIdle /\ PipelineIdle /\ WargearIdle
    /\ MainIdle /\ StatsIdle /\ PointsIdle /\ AbilityIdle /\ TierIdle /\ IndexIdle
    /\ EditorIdle /\ ExportIdle /\ UstatsIdle
SpecEnhancements == EnhancementInit /\ [][EnhancementNext]_vars

StatsInit ==
    StatsInput /\ RoleIdle /\ WeaponIdle /\ PipelineIdle /\ WargearIdle /\ MainIdle
    /\ EnhancementIdle /\ PointsIdle /\ AbilityIdle /\ TierIdle /\ IndexIdle
    /\ EditorIdle /\ ExportIdle /\ UstatsIdle
SpecStats == StatsInit /\ [][StatsNext]_vars

PointsInit ==
    PointsInput /\ RoleIdle /\ WeaponIdle /\ PipelineIdle /\ WargearIdle /\ MainIdle
    /\ EnhancementIdle /\ StatsIdle /\ AbilityIdle /\ TierIdle /\ IndexIdle
    /\ EditorIdle /\ ExportIdle /\ UstatsIdle
SpecPoints == PointsInit /\ [][PointsNext]_vars

AbilityInit ==
    AbilityInput /\ RoleIdle /\ WeaponIdle /\ PipelineIdle /\ WargearIdle
    /\ MainIdle /\ EnhancementIdle /\ StatsIdle /\ PointsIdle /\ TierIdle /\ IndexIdle
    /\ EditorIdle /\ ExportIdle /\ UstatsIdle
SpecAbilities == AbilityInit /\ [][AbilityNext]_vars

TierInit ==
    TierInput /\ RoleIdle /\ WeaponIdle /\ PipelineIdle /\ WargearIdle /\ MainIdle
    /\ EnhancementIdle /\ StatsIdle /\ PointsIdle /\ AbilityIdle /\ IndexIdle
    /\ EditorIdle /\ ExportIdle /\ UstatsIdle
SpecTiers == TierInit /\ [][TierNext]_vars

IndexInit ==
    IndexInput /\ RoleIdle /\ WeaponIdle /\ PipelineIdle /\ WargearIdle /\ MainIdle
    /\ EnhancementIdle /\ StatsIdle /\ PointsIdle /\ AbilityIdle /\ TierIdle
    /\ EditorIdle /\ ExportIdle /\ UstatsIdle
SpecIndex == IndexInit /\ [][IndexNext]_vars

TotalsInit ==
    TotalsInput /\ RoleIdle /\ WeaponIdle /\ PipelineIdle /\ WargearIdle /\ MainIdle
    /\ EnhancementIdle /\ StatsIdle /\ PointsIdle /\ AbilityIdle /\ TierIdle
    /\ IndexIdle /\ ExportIdle /\ UstatsIdle
SpecTotals == TotalsInit /\ [][TotalsNext]_vars

AddUnitInit ==
    EditingInput /\ RoleIdle /\ WeaponIdle /\ PipelineIdle /\ WargearIdle
    /\ MainIdle /\ EnhancementIdle /\ StatsIdle /\ PointsIdle /\ AbilityIdle
    /\ TierIdle /\ IndexIdle /\ ExportIdle /\ UstatsIdle
SpecAddUnit == AddUnitInit /\ [][AddUnitNext]_vars

AssignInit ==
    EditingInput /\ RoleIdle /\ WeaponIdle /\ PipelineIdle /\ WargearIdle
    /\ MainIdle /\ EnhancementIdle /\ StatsIdle /\ PointsIdle /\ AbilityIdle
    /\ TierIdle /\ IndexIdle /\ ExportIdle /\ UstatsIdle
SpecAssign == AssignInit /\ [][AssignNext]_vars

ImportInit ==
    ImportInput /\ RoleIdle /\ WeaponIdle /\ PipelineIdle /\ WargearIdle /\ MainIdle
    /\ EnhancementIdle /\ StatsIdle /\ PointsIdle /\ AbilityIdle /\ TierIdle
    /\ IndexIdle /\ ExportIdle /\ UstatsIdle
SpecImport == ImportInit /\ [][ImportNext]_vars

ExportInit ==
    ExportInput /\ RoleIdle /\ WeaponIdle /\ PipelineIdle /\ WargearIdle /\ MainIdle
    /\ EnhancementIdle /\ StatsIdle /\ PointsIdle /\ AbilityIdle /\ TierIdle
    /\ IndexIdle /\ UstatsIdle
SpecExport == ExportInit /\ [][ExportNext]_vars

UstatsInit ==
    UstatsInput /\ RoleIdle /\ WeaponIdle /\ PipelineIdle /\ WargearIdle /\ MainIdle
    /\ EnhancementIdle /\ StatsIdle /\ PointsIdle /\ AbilityIdle /\ TierIdle
    /\ IndexIdle /\ EditorIdle /\ ExportIdle
SpecUnitStats == UstatsInit /\ [][UstatsNext]_vars

=============================================================================
